---- MODULE Spec2Model ----
(***************************************************************************)
(* A model of the polls API (FastAPI + SQLAlchemy): the polls,             *)
(* poll_options and votes tables, the request handlers of                  *)
(* app/api/v1/endpoints/polls.py and the responses they send.              *)
(*                                                                         *)
(* Every request runs in its own session (app/db/database.py, get_db) and  *)
(* the handlers are plain `def`s, so requests run concurrently and only    *)
(* the store orders them.  vote_poll is modelled query by query: each of   *)
(* its four SELECTs and its commit is one step, and steps of other         *)
(* requests may come in between.  The other handlers are one step each.    *)
(***************************************************************************)
EXTENDS Integers, FiniteSets, Sequences, Bags, TLC

\* ------------------------------------------------------------------ bounds
NumUsers == 2
MaxInflight == 2
MaxRacePolls == 1
MaxRaceOptions == 2
MaxPolls == 2
MaxOptions == 2
MaxEditPolls == 2
MaxListPolls == 2
MaxListPage == 2
MaxListSize == 2
MaxTotal == 30
MaxPage == 4
MaxSize == 12
MaxAdders == 2

\* ------------------------------------------------- program constants
MAX_VOTES_PER_USER_PER_DAY == 1000
MAX_POLLS_PER_USER == 100
MAX_POLL_OPTIONS == 10
POLL_CREATION_HOURLY_LIMIT == 5
POLL_UPDATE_HOURLY_LIMIT == 10
HOURS_PER_DAY == 24

\* The names class ErrorCodes defines; ErrorCodes.X for any other X raises
\* AttributeError.
ErrorCodes ==
    {"AUTH_ERROR", "INVALID_CREDENTIALS", "TOKEN_EXPIRED", "INSUFFICIENT_PERMISSIONS",
     "VALIDATION_ERROR", "MISSING_FIELD", "INVALID_FORMAT",
     "DUPLICATE_RESOURCE", "RESOURCE_NOT_FOUND", "BUSINESS_RULE_VIOLATION",
     "DATABASE_ERROR", "INTERNAL_ERROR", "RATE_LIMIT_EXCEEDED"}

\* The names class ErrorMessages defines.
ErrorMessages ==
    {"AUTH_REQUIRED", "INVALID_CREDENTIALS", "TOKEN_EXPIRED", "INVALID_TOKEN",
     "NOT_AUTHORIZED_UPDATE", "NOT_AUTHORIZED_DELETE", "NOT_AUTHORIZED_ADD_OPTIONS",
     "NOT_AUTHORIZED_VIEW", "POLL_NOT_FOUND", "USER_NOT_FOUND", "POLL_OPTION_NOT_FOUND",
     "DUPLICATE_EMAIL", "DUPLICATE_USERNAME", "DUPLICATE_POLL_TITLE",
     "POLL_LIMIT_EXCEEDED", "RATE_LIMIT_EXCEEDED", "POLL_INACTIVE", "ALREADY_VOTED",
     "DATABASE_ERROR", "INTERNAL_ERROR", "VALIDATION_ERROR"}

\* ------------------------------------------------------------ the state
VARIABLES
    polls,      \* table polls: rows [id, title, description, is_active, is_public, owner_id, pub_date]
    options,    \* table poll_options: rows [id, poll_id, text, vote_count]
    votes,      \* table votes: rows [id, poll_option_id, poll_id, user_id, created_at]
    seq,        \* the next primary key of each table
    inflight,   \* the vote_poll requests between two of their queries (a bag)
    resp,       \* the last response sent
    now,        \* the clock, in hours
    users       \* table users: rows [id, username, email, full_name, is_active]

vars == <<polls, options, votes, seq, inflight, resp, now, users>>

\* The registered users (table users); None is Python's None: no current user.
Users == 1 .. NumUsers
None == 0
Callers == Users \cup {None}

\* Query.first(): a row of the result, the rows here being selected by key.
First(rows) == CHOOSE r \in rows : TRUE

PollRows(poll_id) == {p \in polls : p.id = poll_id}
OptionRows(option_id) == {o \in options : o.id = option_id}

\* ------------------------------------------------------------ responses
Reply(op, outcome) ==
    [op |-> op, status |-> outcome.status, code |-> outcome.code]

Allow == [status |-> 0, code |-> "ALLOW"]
Outcome(status, code) == [status |-> status, code |-> code]
NoReply == [op |-> "none", status |-> 0, code |-> "none"]

\* vote_poll builds the detail of four of its HTTPExceptions from
\* ErrorMessages.<m> and ErrorCodes.<c>.  A name the class lacks raises
\* AttributeError before the HTTPException exists; vote_poll's
\* `except Exception` turns it into 500 POLL_VOTE_FAILED after a rollback.
VoteRaise(status, message, code) ==
    IF message \in ErrorMessages /\ code \in ErrorCodes
    THEN Outcome(status, code)
    ELSE Outcome(500, "POLL_VOTE_FAILED")

\* --------------------------------------------------------------- vote_poll
\* Lines 1072-1167: the id checks, the poll query, the private-poll gate and
\* the active check.
VoteBeginOutcome_NoOwnerGate(caller, poll_id, option_id) ==
    IF poll_id <= 0 \/ option_id <= 0 THEN Outcome(422, "VALIDATION_ERROR")
    ELSE IF PollRows(poll_id) = {} THEN Outcome(404, "POLL_NOT_FOUND")
    ELSE LET poll == First(PollRows(poll_id)) IN
         IF ~poll.is_public /\ caller = None
         THEN Outcome(401, "AUTHENTICATION_REQUIRED")
         ELSE IF ~poll.is_active
         THEN VoteRaise(400, "POLL_INACTIVE", "POLL_INACTIVE")
         ELSE Allow

VoteBeginOutcome(caller, poll_id, option_id) ==
    IF poll_id <= 0 \/ option_id <= 0 THEN Outcome(422, "VALIDATION_ERROR")
    ELSE IF PollRows(poll_id) = {} THEN Outcome(404, "POLL_NOT_FOUND")
    ELSE LET poll == First(PollRows(poll_id)) IN
         IF ~poll.is_public /\ caller = None
         THEN Outcome(401, "AUTHENTICATION_REQUIRED")
         ELSE IF ~poll.is_public /\ poll.owner_id # caller
         THEN Outcome(403, "ACCESS_DENIED")
         ELSE IF ~poll.is_active
         THEN VoteRaise(400, "POLL_INACTIVE", "POLL_INACTIVE")
         ELSE Allow

\* Lines 1169-1195 and the anonymous branch 1236-1249, which runs no query.
VoteOptionOutcome(r) ==
    IF OptionRows(r.option_id) = {} THEN Outcome(404, "POLL_OPTION_NOT_FOUND")
    ELSE IF First(OptionRows(r.option_id)).poll_id # r.poll_id
    THEN VoteRaise(404, "OPTION_NOT_IN_POLL", "OPTION_NOT_IN_POLL")
    ELSE IF r.user = None THEN Outcome(401, "VOTE_MODEL_CONSTRAINT")
    ELSE Allow

\* Lines 1201-1204: db.query(Vote).join(PollOption).filter(
\* PollOption.poll_id == poll_id, Vote.user_id == current_user.id).
ExistingVotes(poll_id, user) ==
    {v \in votes : v.user_id = user
                   /\ \E o \in options : o.id = v.poll_option_id /\ o.poll_id = poll_id}

\* Lines 1206-1216.
VotePreCheckOutcome(r) ==
    IF ExistingVotes(r.poll_id, r.user) # {}
    THEN VoteRaise(400, "ALREADY_VOTED", "ALREADY_VOTED")
    ELSE Allow

\* Line 1219: today at 00:00.
TodayStart(t) == t - (t % HOURS_PER_DAY)

\* Lines 1220-1223.
DailyVoteCount(user) ==
    Cardinality({v \in votes : v.user_id = user /\ v.created_at >= TodayStart(now)})

\* Lines 1225-1235.
VoteDailyOutcome(r) ==
    IF DailyVoteCount(r.user) >= MAX_VOTES_PER_USER_PER_DAY
    THEN VoteRaise(400, "VOTE_LIMIT_EXCEEDED", "VOTE_LIMIT_EXCEEDED")
    ELSE Allow

\* The UniqueConstraint('poll_id', 'user_id') of table votes.
UniqueUserVotePerPoll(rows) ==
    \A v, w \in rows : (v.poll_id = w.poll_id /\ v.user_id = w.user_id) => v = w

\* The Vote row of lines 1255-1260, with the key and created_at the store sets.
NewVote(r) ==
    [id |-> seq.vote, poll_option_id |-> r.option_id, poll_id |-> r.poll_id,
     user_id |-> r.user, created_at |-> now]

\* Line 1265, poll_option.vote_count += 1, on the object the option query
\* loaded: the flush writes UPDATE poll_options SET vote_count = <loaded + 1>.
IncrementedCount(r) == r.vote_count + 1

OptionsAfterVote(r) ==
    {IF o.id = r.option_id THEN [o EXCEPT !.vote_count = IncrementedCount(r)] ELSE o
        : o \in options}

\* Lines 1262-1270 and the handlers 1307-1332: the flush and the commit.  The
\* UPDATE of the option comes first (PollOption is flushed before Vote, which
\* refers to it); it matches no row when the option is gone (StaleDataError, a
\* SQLAlchemyError).  The INSERT then meets the uniqueness constraint
\* (IntegrityError).  Either way the session is rolled back.
VoteCommitOutcome_NoConstraint(r) ==
    IF OptionRows(r.option_id) = {} THEN Outcome(500, "DATABASE_ERROR")
    ELSE Outcome(200, "OK")

VoteCommitOutcome(r) ==
    IF OptionRows(r.option_id) = {} THEN Outcome(500, "DATABASE_ERROR")
    ELSE IF ~UniqueUserVotePerPoll(votes \cup {NewVote(r)})
    THEN Outcome(400, "INTEGRITY_ERROR")
    ELSE Outcome(200, "OK")

Request(caller, poll_id, option_id, is_public) ==
    [user |-> caller, poll_id |-> poll_id, option_id |-> option_id,
     is_public |-> is_public, vote_count |-> 0, pc |-> "option"]

Pending == BagToSet(inflight)
Take(r) == inflight (-) SetToBag({r})
Put(r) == SetToBag({r})

\* A request arrives and runs up to its option query.
VoteBegin(caller, poll_id, option_id) ==
    /\ LET out == VoteBeginOutcome(caller, poll_id, option_id) IN
       IF out = Allow
       THEN /\ inflight' = inflight (+)
                  Put(Request(caller, poll_id, option_id,
                              First(PollRows(poll_id)).is_public))
            /\ resp' = resp
       ELSE /\ resp' = Reply("vote_poll", out)
            /\ inflight' = inflight
    /\ UNCHANGED <<polls, options, votes, seq, now, users>>

\* One failed or passed check of a pending request: it answers, or moves on.
VoteStep(r, out, next) ==
    /\ IF out = Allow
       THEN /\ inflight' = Take(r) (+) Put(next)
            /\ resp' = resp
       ELSE /\ inflight' = Take(r)
            /\ resp' = Reply("vote_poll", out)
    /\ UNCHANGED <<polls, options, votes, seq, now, users>>

\* Line 1170: poll_option, the object the request keeps until its commit.
WithOption(r) ==
    IF OptionRows(r.option_id) = {} THEN r
    ELSE [r EXCEPT !.pc = "precheck",
                   !.vote_count = First(OptionRows(r.option_id)).vote_count]

VoteReadOption(r) ==
    /\ r.pc = "option"
    /\ VoteStep(r, VoteOptionOutcome(r), WithOption(r))

VotePreCheck(r) ==
    /\ r.pc = "precheck"
    /\ VoteStep(r, VotePreCheckOutcome(r), [r EXCEPT !.pc = "daily"])

VoteDailyLimit(r) ==
    /\ r.pc = "daily"
    /\ VoteStep(r, VoteDailyOutcome(r), [r EXCEPT !.pc = "commit"])

VoteCommit(r) ==
    /\ r.pc = "commit"
    /\ LET out == VoteCommitOutcome(r) IN
       /\ IF out.status = 200
          THEN /\ votes' = votes \cup {NewVote(r)}
               /\ options' = OptionsAfterVote(r)
               /\ seq' = [seq EXCEPT !.vote = @ + 1]
          ELSE UNCHANGED <<votes, options, seq>>
       /\ resp' = Reply("vote_poll", out)
    /\ inflight' = Take(r)
    /\ UNCHANGED <<polls, now, users>>

\* A vote_poll request run from its first line to its last with no step of
\* another request in between.
Arrived(caller, poll_id, option_id) ==
    Request(caller, poll_id, option_id, First(PollRows(poll_id)).is_public)

VotePollOutcome(caller, poll_id, option_id) ==
    IF VoteBeginOutcome(caller, poll_id, option_id) # Allow
    THEN VoteBeginOutcome(caller, poll_id, option_id)
    ELSE LET r == Arrived(caller, poll_id, option_id) IN
         IF VoteOptionOutcome(r) # Allow THEN VoteOptionOutcome(r)
         ELSE IF VotePreCheckOutcome(WithOption(r)) # Allow
         THEN VotePreCheckOutcome(WithOption(r))
         ELSE IF VoteDailyOutcome(WithOption(r)) # Allow
         THEN VoteDailyOutcome(WithOption(r))
         ELSE VoteCommitOutcome(WithOption(r))

VotePoll(caller, poll_id, option_id) ==
    /\ LET out == VotePollOutcome(caller, poll_id, option_id) IN
       /\ IF out.status = 200
          THEN LET r == WithOption(Arrived(caller, poll_id, option_id)) IN
               /\ votes' = votes \cup {NewVote(r)}
               /\ options' = OptionsAfterVote(r)
               /\ seq' = [seq EXCEPT !.vote = @ + 1]
          ELSE UNCHANGED <<votes, options, seq>>
       /\ resp' = Reply("vote_poll", out)
    /\ UNCHANGED <<polls, inflight, now, users>>

\* ------------------------------------------------------------------ strings
\* A Python str is a sequence of one-character strings; Optional[x] is the set
\* holding x, or the empty set for None.
Null == {}
Some(x) == {x}
TheValue(opt) == CHOOSE x \in opt : TRUE

UpperCase == <<"A", "B", "C", "D", "E", "F", "G", "H", "I", "J", "K", "L", "M",
               "N", "O", "P", "Q", "R", "S", "T", "U", "V", "W", "X", "Y", "Z">>
LowerCase == <<"a", "b", "c", "d", "e", "f", "g", "h", "i", "j", "k", "l", "m",
               "n", "o", "p", "q", "r", "s", "t", "u", "v", "w", "x", "y", "z">>
Digits == {"0", "1", "2", "3", "4", "5", "6", "7", "8", "9"}
Letters == {UpperCase[i] : i \in 1 .. 26} \cup {LowerCase[i] : i \in 1 .. 26}

IsSpace(c) == c = " "

\* str.lower()
LowerChar(c) ==
    IF \E i \in 1 .. 26 : UpperCase[i] = c
    THEN LowerCase[CHOOSE i \in 1 .. 26 : UpperCase[i] = c]
    ELSE c
Lower(s) == [i \in 1 .. Len(s) |-> LowerChar(s[i])]

\* str.strip()
RECURSIVE LStrip(_)
LStrip(s) == IF s # <<>> /\ IsSpace(Head(s)) THEN LStrip(Tail(s)) ELSE s
RECURSIVE RStrip(_)
RStrip(s) ==
    IF s # <<>> /\ IsSpace(s[Len(s)]) THEN RStrip(SubSeq(s, 1, Len(s) - 1)) ELSE s
Strip(s) == RStrip(LStrip(s))

\* ' '.join(v.split()): no leading or trailing blank, one blank between words.
RECURSIVE Squeeze(_)
Squeeze(s) ==
    IF Len(s) < 2 THEN s
    ELSE IF IsSpace(s[1]) /\ IsSpace(s[2]) THEN Squeeze(Tail(s))
    ELSE <<Head(s)>> \o Squeeze(Tail(s))
JoinSplit(s) == Strip(Squeeze(s))

\* `word in s`
Contains(s, word) ==
    \E i \in 1 .. (Len(s) - Len(word) + 1) : SubSeq(s, i, i + Len(word) - 1) = word

forbidden_words ==
    {<<"s", "p", "a", "m">>, <<"t", "e", "s", "t", "1", "2", "3">>,
     <<"a", "b", "u", "s", "e">>}

MIN_POLL_TITLE_LENGTH == 5
MAX_POLL_TITLE_LENGTH == 200
MAX_POLL_DESCRIPTION_LENGTH == 1000
MAX_POLL_OPTION_LENGTH == 100

\* ------------------------------------------------------- request schemas
\* validate_title of PollCreate and of PollUpdate, after the Field's length
\* bounds, which pydantic checks on the raw string.
TitleValid(v) ==
    /\ Len(v) >= MIN_POLL_TITLE_LENGTH
    /\ Len(v) <= MAX_POLL_TITLE_LENGTH
    /\ Strip(v) # <<>>
    /\ ~\E w \in forbidden_words : Contains(Lower(JoinSplit(v)), Lower(w))
    /\ \E i \in 1 .. Len(v) : v[i] \in Letters

\* validate_description: blank becomes None.
DescriptionParsed(v) == IF Strip(v) = <<>> THEN Null ELSE Some(JoinSplit(v))

\* An update payload is a function from the fields the JSON body names to
\* Optional values: a field the body leaves out is not in its domain
\* (exclude_unset), a field the body sets to null maps to Null.
PollUpdateValid(d) ==
    /\ ("title" \in DOMAIN d /\ d.title # Null) => TitleValid(TheValue(d.title))
    /\ ("description" \in DOMAIN d /\ d.description # Null)
           => Len(TheValue(d.description)) <= MAX_POLL_DESCRIPTION_LENGTH

\* The fields of PollUpdate; the schema drops every other key of the body.
PollUpdateFields == {"title", "description", "is_active", "is_public"}

\* A schema that keeps the keys it does not declare.
UpdateData_ExtraAllowed(d) ==
    [f \in DOMAIN d |->
        IF d[f] = Null THEN Null
        ELSE IF f = "title" THEN Some(JoinSplit(TheValue(d[f])))
        ELSE IF f = "description" THEN DescriptionParsed(TheValue(d[f]))
        ELSE d[f]]

\* poll_update.model_dump(exclude_unset=True), line 617.
UpdateData(d) ==
    [f \in DOMAIN d \cap PollUpdateFields |->
        IF d[f] = Null THEN Null
        ELSE IF f = "title" THEN Some(JoinSplit(TheValue(d[f])))
        ELSE IF f = "description" THEN DescriptionParsed(TheValue(d[f]))
        ELSE d[f]]

\* PollCreate: validate_poll_data (mode='before', on the raw values), then the
\* fields.  A create payload is a record [title, description, is_active, is_public],
\* description Optional.
PollCreateValid(c) ==
    /\ ~(c.title # <<>> /\ c.description # Null /\ TheValue(c.description) # <<>>
         /\ Strip(Lower(c.title)) = Strip(Lower(TheValue(c.description))))
    /\ TitleValid(c.title)
    /\ c.description # Null => Len(TheValue(c.description)) <= MAX_POLL_DESCRIPTION_LENGTH

PollCreateParsed(c) ==
    [c EXCEPT !.title = JoinSplit(c.title),
              !.description = IF c.description = Null THEN Null
                              ELSE DescriptionParsed(TheValue(c.description))]

\* PollOptionCreate.validate_text.
OptionTextValid(v) ==
    /\ Len(v) >= 1
    /\ Len(v) <= MAX_POLL_OPTION_LENGTH
    /\ Strip(v) # <<>>
    /\ ~\E w \in forbidden_words : Contains(Lower(JoinSplit(v)), Lower(w))
    /\ \E i \in 1 .. Len(v) : v[i] \in Letters \cup Digits

\* ------------------------------------------------------ _validate_poll_business_rules
\* Polls of the user whose pub_date >= now - 1 hour.
RecentPollCount(user) ==
    Cardinality({p \in polls : p.owner_id = user /\ p.pub_date >= now - 1})

OwnedPollCount(user) == Cardinality({p \in polls : p.owner_id = user})

\* The rules without the hourly limit on creation.
BusinessRulesOutcome_NoHourlyLimit(user, operation) ==
    IF operation = "create" /\ OwnedPollCount(user) >= MAX_POLLS_PER_USER
    THEN Outcome(400, "BUSINESS_RULE_VIOLATION")
    ELSE IF operation = "update" /\ RecentPollCount(user) >= POLL_UPDATE_HOURLY_LIMIT
    THEN Outcome(429, "RATE_LIMIT_EXCEEDED")
    ELSE Allow

BusinessRulesOutcome(user, operation) ==
    IF operation = "create" /\ OwnedPollCount(user) >= MAX_POLLS_PER_USER
    THEN Outcome(400, "BUSINESS_RULE_VIOLATION")
    ELSE IF operation = "create" /\ RecentPollCount(user) >= POLL_CREATION_HOURLY_LIMIT
    THEN Outcome(429, "RATE_LIMIT_EXCEEDED")
    ELSE IF operation = "update" /\ RecentPollCount(user) >= POLL_UPDATE_HOURLY_LIMIT
    THEN Outcome(429, "RATE_LIMIT_EXCEEDED")
    ELSE Allow

\* get_current_user: a request without a valid token never reaches the handler.
NotAuthenticated == Outcome(401, "NOT_AUTHENTICATED")
\* The body failed its schema: FastAPI answers 422 before the handler runs.
RequestInvalid == Outcome(422, "VALIDATION_ERROR")

\* -------------------------------------------------------------- create_poll
\* Lines 84-123, after get_current_user and the PollCreate schema.
CreatePollOutcome(caller, c) ==
    IF caller = None THEN NotAuthenticated
    ELSE IF ~PollCreateValid(c) THEN RequestInvalid
    ELSE IF BusinessRulesOutcome(caller, "create") # Allow
    THEN BusinessRulesOutcome(caller, "create")
    ELSE IF \E p \in polls : p.title = Strip(PollCreateParsed(c).title) /\ p.owner_id = caller
    THEN Outcome(409, "DUPLICATE_POLL_TITLE")
    ELSE Outcome(201, "CREATED")

\* Lines 109-115: the row, with the key and pub_date the store sets.
NewPoll(caller, c) ==
    LET poll == PollCreateParsed(c) IN
    [id |-> seq.poll,
     title |-> Strip(poll.title),
     description |-> IF poll.description = Null \/ TheValue(poll.description) = <<>>
                     THEN Null ELSE Some(Strip(TheValue(poll.description))),
     is_active |-> poll.is_active,
     is_public |-> poll.is_public,
     owner_id |-> caller,
     pub_date |-> now]

CreatePoll(caller, c) ==
    /\ LET out == CreatePollOutcome(caller, c) IN
       /\ IF out.status = 201
          THEN /\ polls' = polls \cup {NewPoll(caller, c)}
               /\ seq' = [seq EXCEPT !.poll = @ + 1]
          ELSE UNCHANGED <<polls, seq>>
       /\ resp' = Reply("create_poll", out)
    /\ UNCHANGED <<options, votes, inflight, now, users>>

\* ----------------------------------------------------------------- get_poll
\* Lines 483-551.
GetPollOutcome_ActiveOnly(caller, poll_id) ==
    IF poll_id <= 0 THEN Outcome(422, "VALIDATION_ERROR")
    ELSE IF PollRows(poll_id) = {} THEN Outcome(404, "POLL_NOT_FOUND")
    ELSE LET poll == First(PollRows(poll_id)) IN
         IF ~poll.is_active /\ poll.owner_id # caller THEN Outcome(404, "POLL_NOT_FOUND")
         ELSE IF ~poll.is_public /\ caller = None
         THEN Outcome(401, "AUTHENTICATION_REQUIRED")
         ELSE IF ~poll.is_public /\ poll.owner_id # caller
         THEN Outcome(403, "ACCESS_DENIED")
         ELSE Outcome(200, "OK")

GetPollOutcome(caller, poll_id) ==
    IF poll_id <= 0 THEN Outcome(422, "VALIDATION_ERROR")
    ELSE IF PollRows(poll_id) = {} THEN Outcome(404, "POLL_NOT_FOUND")
    ELSE LET poll == First(PollRows(poll_id)) IN
         IF ~poll.is_public /\ caller = None
         THEN Outcome(401, "AUTHENTICATION_REQUIRED")
         ELSE IF ~poll.is_public /\ poll.owner_id # caller
         THEN Outcome(403, "ACCESS_DENIED")
         ELSE Outcome(200, "OK")

GetPoll(caller, poll_id) ==
    /\ resp' = Reply("get_poll", GetPollOutcome(caller, poll_id))
    /\ UNCHANGED <<polls, options, votes, seq, inflight, now, users>>

\* -------------------------------------------------------------- update_poll
\* getattr(poll, field), as an Optional.
Column(poll, f) ==
    IF f = "title" THEN Some(poll.title)
    ELSE IF f = "description" THEN poll.description
    ELSE IF f = "is_active" THEN Some(poll.is_active)
    ELSE IF f = "is_public" THEN Some(poll.is_public)
    ELSE IF f = "owner_id" THEN Some(poll.owner_id)
    ELSE Some(poll.pub_date)

IsStrField(f, data) == f \in {"title", "description"} /\ data[f] # Null

\* Lines 650-652: both sides of the comparison, stripped when the new value is a str.
NewValue(f, data) ==
    IF IsStrField(f, data) THEN Some(Strip(TheValue(data[f]))) ELSE data[f]

CurrentValue(poll, f, data) ==
    IF IsStrField(f, data)
    THEN IF Column(poll, f) = Null \/ TheValue(Column(poll, f)) = <<>>
         THEN Null
         ELSE Some(Strip(TheValue(Column(poll, f))))
    ELSE Column(poll, f)

\* Lines 655-658: the fields the loop assigns.
ChangedFields(poll, data) ==
    {f \in DOMAIN data : CurrentValue(poll, f, data) # NewValue(f, data)}

\* polls.title, polls.is_active and polls.is_public are nullable=False.
NotNullViolated(poll, data) ==
    \E f \in ChangedFields(poll, data) \cap {"title", "is_active", "is_public"} :
        NewValue(f, data) = Null

Assigned(poll, f, data) ==
    IF f \in ChangedFields(poll, data) THEN NewValue(f, data) ELSE Column(poll, f)

\* An update that replaces the whole row: a field the payload leaves out is
\* reset to its default.
UpdatedPoll_FullReplace(poll, data) ==
    [poll EXCEPT !.title = TheValue(Assigned(poll, "title", data)),
                 !.description = IF "description" \in DOMAIN data
                                 THEN Assigned(poll, "description", data) ELSE Null,
                 !.is_active = IF "is_active" \in DOMAIN data
                               THEN TheValue(Assigned(poll, "is_active", data)) ELSE TRUE,
                 !.is_public = TheValue(Assigned(poll, "is_public", data))]

\* Lines 646-659: setattr for every key of update_data that differs.
UpdatedPoll(poll, data) ==
    [poll EXCEPT !.title = TheValue(Assigned(poll, "title", data)),
                 !.description = Assigned(poll, "description", data),
                 !.is_active = TheValue(Assigned(poll, "is_active", data)),
                 !.is_public = TheValue(Assigned(poll, "is_public", data)),
                 !.owner_id = TheValue(Assigned(poll, "owner_id", data)),
                 !.pub_date = TheValue(Assigned(poll, "pub_date", data))]

\* Lines 616-635: another poll of the caller holds the title.
DuplicateTitle_IncludingSelf(caller, poll_id, data) ==
    /\ "title" \in DOMAIN data
    /\ data.title # Null
    /\ \E p \in polls : p.title = Strip(TheValue(data.title)) /\ p.owner_id = caller

DuplicateTitle(caller, poll_id, data) ==
    /\ "title" \in DOMAIN data
    /\ data.title # Null
    /\ \E p \in polls : /\ p.title = Strip(TheValue(data.title))
                        /\ p.owner_id = caller
                        /\ p.id # poll_id

\* Lines 587-669 and the IntegrityError handler 687-698, after
\* get_current_user and the PollUpdate schema.
UpdatePollOutcome(caller, poll_id, d) ==
    IF caller = None THEN NotAuthenticated
    ELSE IF ~PollUpdateValid(d) THEN RequestInvalid
    ELSE IF PollRows(poll_id) = {} THEN Outcome(404, "POLL_NOT_FOUND")
    ELSE IF First(PollRows(poll_id)).owner_id # caller
    THEN Outcome(403, "NOT_AUTHORIZED_UPDATE")
    ELSE IF BusinessRulesOutcome(caller, "update") # Allow
    THEN BusinessRulesOutcome(caller, "update")
    ELSE IF DuplicateTitle(caller, poll_id, UpdateData(d))
    THEN Outcome(409, "DUPLICATE_POLL_TITLE")
    ELSE IF NotNullViolated(First(PollRows(poll_id)), UpdateData(d))
    THEN Outcome(400, "INTEGRITY_ERROR")
    ELSE Outcome(200, "OK")

UpdatePoll(caller, poll_id, d) ==
    /\ LET out == UpdatePollOutcome(caller, poll_id, d) IN
       /\ IF out.status = 200
          THEN polls' = (polls \ PollRows(poll_id))
                           \cup {UpdatedPoll(First(PollRows(poll_id)), UpdateData(d))}
          ELSE polls' = polls
       /\ resp' = Reply("update_poll", out)
    /\ UNCHANGED <<options, votes, seq, inflight, now, users>>

\* -------------------------------------------------------------- delete_poll
\* Lines 750-794.
DeletePollOutcome_AnyUser(caller, poll_id) ==
    IF caller = None THEN NotAuthenticated
    ELSE IF poll_id <= 0 THEN Outcome(422, "VALIDATION_ERROR")
    ELSE IF PollRows(poll_id) = {} THEN Outcome(404, "POLL_NOT_FOUND")
    ELSE Outcome(200, "OK")

DeletePollOutcome(caller, poll_id) ==
    IF caller = None THEN NotAuthenticated
    ELSE IF poll_id <= 0 THEN Outcome(422, "VALIDATION_ERROR")
    ELSE IF PollRows(poll_id) = {} THEN Outcome(404, "POLL_NOT_FOUND")
    ELSE IF First(PollRows(poll_id)).owner_id # caller
    THEN Outcome(403, "NOT_AUTHORIZED_DELETE")
    ELSE Outcome(200, "OK")

\* Poll.options and PollOption.vote_details, both cascade="all, delete-orphan".
OptionsOf(poll_id) == {o \in options : o.poll_id = poll_id}
VoteDetails(opts) == {v \in votes : \E o \in opts : v.poll_option_id = o.id}

\* func.sum(PollOption.vote_count) grouped by poll_id (get_polls, lines 301-308).
RECURSIVE SumVoteCount(_)
SumVoteCount(opts) ==
    IF opts = {} THEN 0
    ELSE LET o == CHOOSE x \in opts : TRUE IN o.vote_count + SumVoteCount(opts \ {o})
TotalVotes(poll_id) == SumVoteCount(OptionsOf(poll_id))

\* delete_poll without the cascade of Poll.options and PollOption.vote_details.
DeletePoll_NoCascade(caller, poll_id) ==
    /\ LET out == DeletePollOutcome(caller, poll_id) IN
       /\ IF out.status = 200
          THEN polls' = polls \ PollRows(poll_id)
          ELSE polls' = polls
       /\ resp' = Reply("delete_poll", out)
    /\ UNCHANGED <<options, votes, seq, inflight, now, users>>

\* Lines 801-802: db.delete(poll) takes the poll's options and their votes along.
DeletePoll(caller, poll_id) ==
    /\ LET out == DeletePollOutcome(caller, poll_id) IN
       /\ IF out.status = 200
          THEN /\ polls' = polls \ PollRows(poll_id)
               /\ options' = options \ OptionsOf(poll_id)
               /\ votes' = votes \ VoteDetails(OptionsOf(poll_id))
          ELSE UNCHANGED <<polls, options, votes>>
       /\ resp' = Reply("delete_poll", out)
    /\ UNCHANGED <<seq, inflight, now, users>>

\* ---------------------------------------------------------- add_poll_option
\* Lines 870-959, after get_current_user and the PollOptionCreate schema.
AddPollOptionOutcome_NoActiveCheck(caller, poll_id, text) ==
    IF caller = None THEN NotAuthenticated
    ELSE IF ~OptionTextValid(text) THEN RequestInvalid
    ELSE IF poll_id <= 0 THEN Outcome(422, "VALIDATION_ERROR")
    ELSE IF PollRows(poll_id) = {} THEN Outcome(404, "POLL_NOT_FOUND")
    ELSE IF First(PollRows(poll_id)).owner_id # caller
    THEN Outcome(403, "INSUFFICIENT_PERMISSIONS")
    ELSE IF Cardinality(OptionsOf(poll_id)) >= MAX_POLL_OPTIONS
    THEN Outcome(400, "MAX_OPTIONS_EXCEEDED")
    ELSE IF \E o \in OptionsOf(poll_id) : Lower(o.text) = Lower(Strip(JoinSplit(text)))
    THEN Outcome(400, "DUPLICATE_POLL_OPTION")
    ELSE Outcome(201, "CREATED")

\* add_poll_option with a duplicate check that tells upper from lower case.
AddPollOptionOutcome_CaseSensitive(caller, poll_id, text) ==
    IF caller = None THEN NotAuthenticated
    ELSE IF ~OptionTextValid(text) THEN RequestInvalid
    ELSE IF poll_id <= 0 THEN Outcome(422, "VALIDATION_ERROR")
    ELSE IF PollRows(poll_id) = {} THEN Outcome(404, "POLL_NOT_FOUND")
    ELSE IF First(PollRows(poll_id)).owner_id # caller
    THEN Outcome(403, "INSUFFICIENT_PERMISSIONS")
    ELSE IF ~First(PollRows(poll_id)).is_active THEN Outcome(400, "POLL_INACTIVE")
    ELSE IF Cardinality(OptionsOf(poll_id)) >= MAX_POLL_OPTIONS
    THEN Outcome(400, "MAX_OPTIONS_EXCEEDED")
    ELSE IF \E o \in OptionsOf(poll_id) : o.text = Strip(JoinSplit(text))
    THEN Outcome(400, "DUPLICATE_POLL_OPTION")
    ELSE Outcome(201, "CREATED")

AddPollOptionOutcome(caller, poll_id, text) ==
    IF caller = None THEN NotAuthenticated
    ELSE IF ~OptionTextValid(text) THEN RequestInvalid
    ELSE IF poll_id <= 0 THEN Outcome(422, "VALIDATION_ERROR")
    ELSE IF PollRows(poll_id) = {} THEN Outcome(404, "POLL_NOT_FOUND")
    ELSE IF First(PollRows(poll_id)).owner_id # caller
    THEN Outcome(403, "INSUFFICIENT_PERMISSIONS")
    ELSE IF ~First(PollRows(poll_id)).is_active THEN Outcome(400, "POLL_INACTIVE")
    ELSE IF Cardinality(OptionsOf(poll_id)) >= MAX_POLL_OPTIONS
    THEN Outcome(400, "MAX_OPTIONS_EXCEEDED")
    ELSE IF \E o \in OptionsOf(poll_id) : Lower(o.text) = Lower(Strip(JoinSplit(text)))
    THEN Outcome(400, "DUPLICATE_POLL_OPTION")
    ELSE Outcome(201, "CREATED")

\* Lines 962-966.
NewOption(poll_id, text) ==
    [id |-> seq.option, poll_id |-> poll_id, text |-> Strip(JoinSplit(text)),
     vote_count |-> 0]

AddPollOption(caller, poll_id, text) ==
    /\ LET out == AddPollOptionOutcome(caller, poll_id, text) IN
       /\ IF out.status = 201
          THEN /\ options' = options \cup {NewOption(poll_id, text)}
               /\ seq' = [seq EXCEPT !.option = @ + 1]
          ELSE UNCHANGED <<options, seq>>
       /\ resp' = Reply("add_poll_option", out)
    /\ UNCHANGED <<polls, votes, inflight, now, users>>

\* add_poll_option as the steps of a request that other requests may run
\* between: the checks up to the last query (lines 870-959), then the insert
\* and its commit (lines 962-970).
AddOptionRequest(caller, poll_id, text) ==
    [user |-> caller, poll_id |-> poll_id, text |-> text, pc |-> "insert"]

AddOptionBegin(caller, poll_id, text) ==
    /\ LET out == AddPollOptionOutcome(caller, poll_id, text) IN
       IF out.status = 201
       THEN /\ inflight' = inflight (+) Put(AddOptionRequest(caller, poll_id, text))
            /\ resp' = resp
       ELSE /\ resp' = Reply("add_poll_option", out)
            /\ inflight' = inflight
    /\ UNCHANGED <<polls, options, votes, seq, now, users>>

AddOptionCommit(r) ==
    /\ r.pc = "insert"
    /\ options' = options \cup {NewOption(r.poll_id, r.text)}
    /\ seq' = [seq EXCEPT !.option = @ + 1]
    /\ inflight' = Take(r)
    /\ resp' = Reply("add_poll_option", Outcome(201, "CREATED"))
    /\ UNCHANGED <<polls, votes, now, users>>

\* ---------------------------------------------------------------- pagination
MAX_PAGE_SIZE == 100

\* PaginationParams.offset.
Offset(page, size) == (page - 1) * size

\* math.ceil(total / size): the float quotient is exact for the totals a table
\* can hold, so the ceiling is that of the integer quotient.
Ceil(total, size) == (total + size - 1) \div size

\* calculate_pagination_metadata without the one page of an empty result.
PaginationMeta_NoFloor(total, page, size) ==
    LET pages == Ceil(total, size) IN
    [total |-> total, page |-> page, size |-> size, pages |-> pages,
     has_next |-> page < pages, has_prev |-> page > 1]

\* calculate_pagination_metadata.
PaginationMeta(total, page, size) ==
    LET pages == IF total > 0 THEN Ceil(total, size) ELSE 1 IN
    [total |-> total, page |-> page, size |-> size, pages |-> pages,
     has_next |-> page < pages, has_prev |-> page > 1]

\* apply_pagination: query.offset(offset).limit(size) on the ordered rows.
ApplyPagination(rows, page, size) ==
    SubSeq(rows, Offset(page, size) + 1,
           IF Offset(page, size) + size < Len(rows)
           THEN Offset(page, size) + size ELSE Len(rows))

\* apply_search: title ILIKE %term%, for a term without the wildcards % and _.
ApplySearch(rows, search) ==
    IF search = Null \/ TheValue(search) = <<>> THEN rows
    ELSE {p \in rows : Contains(Lower(p.title), Lower(TheValue(search)))}

\* get_pagination_params: page >= 1, 1 <= size <= MAX_PAGE_SIZE.
PaginationValid(page, size) == page >= 1 /\ size >= 1 /\ size <= MAX_PAGE_SIZE

\* ------------------------------------------------------ get_polls, get_my_polls
SortOption ==
    {"created_desc", "created_asc", "title_asc", "title_desc", "votes_desc", "votes_asc"}

\* The code point order of the characters titles are made of.
CodePoints ==
    <<" ", "0", "1", "2", "3", "4", "5", "6", "7", "8", "9">> \o UpperCase \o LowerCase
CodePoint(c) == CHOOSE i \in 1 .. Len(CodePoints) : CodePoints[i] = c

\* a < b for strings, as the store compares titles.
RECURSIVE StrLess(_, _)
StrLess(a, b) ==
    IF b = <<>> THEN FALSE
    ELSE IF a = <<>> THEN TRUE
    ELSE IF Head(a) = Head(b) THEN StrLess(Tail(a), Tail(b))
    ELSE CodePoint(Head(a)) < CodePoint(Head(b))

\* The largest vote_count among a poll's options, 0 for a poll without options.
LargestVoteCount(poll_id) ==
    IF OptionsOf(poll_id) = {} THEN 0
    ELSE CHOOSE n \in {o.vote_count : o \in OptionsOf(poll_id)} :
             \A o \in OptionsOf(poll_id) : o.vote_count <= n

\* An ORDER BY on the most voted option of each poll instead of the sum.
MayPrecede_ByLargestOption(p, q, sort) ==
    IF sort = "created_asc" THEN p.pub_date <= q.pub_date
    ELSE IF sort = "title_asc" THEN ~StrLess(q.title, p.title)
    ELSE IF sort = "title_desc" THEN ~StrLess(p.title, q.title)
    ELSE IF sort = "votes_desc" THEN LargestVoteCount(p.id) >= LargestVoteCount(q.id)
    ELSE IF sort = "votes_asc" THEN LargestVoteCount(p.id) <= LargestVoteCount(q.id)
    ELSE p.pub_date >= q.pub_date

\* An ORDER BY whose votes_desc puts the least voted poll first.
MayPrecede_LeastVotedFirst(p, q, sort) ==
    IF sort = "created_asc" THEN p.pub_date <= q.pub_date
    ELSE IF sort = "title_asc" THEN ~StrLess(q.title, p.title)
    ELSE IF sort = "title_desc" THEN ~StrLess(p.title, q.title)
    ELSE IF sort \in {"votes_desc", "votes_asc"} THEN TotalVotes(p.id) <= TotalVotes(q.id)
    ELSE p.pub_date >= q.pub_date

\* Row p may come before row q under the ORDER BY of the sort option.  The
\* clause names one expression and nothing else: rows that are equal in it
\* may come in either order.
MayPrecede(p, q, sort) ==
    IF sort = "created_asc" THEN p.pub_date <= q.pub_date
    ELSE IF sort = "title_asc" THEN ~StrLess(q.title, p.title)
    ELSE IF sort = "title_desc" THEN ~StrLess(p.title, q.title)
    ELSE IF sort = "votes_desc" THEN TotalVotes(p.id) >= TotalVotes(q.id)
    ELSE IF sort = "votes_asc" THEN TotalVotes(p.id) <= TotalVotes(q.id)
    ELSE p.pub_date >= q.pub_date

\* The results the store may give for the ordered query: every arrangement of
\* the rows that agrees with the ORDER BY.
Orderings(rows, sort) ==
    {s \in [1 .. Cardinality(rows) -> rows] :
        /\ \A i, j \in DOMAIN s : i # j => s[i] # s[j]
        /\ \A i, j \in DOMAIN s : i < j => MayPrecede(s[i], s[j], sort)}

\* Lines 270-290 and paginate_query's search: the rows of get_polls.  A
\* request q is [search, is_active, owner_id, sort, page, size], the first
\* three Optional.
Visible_Everything(caller) == polls

Visible(caller) ==
    {p \in polls : p.is_public \/ (caller # None /\ p.owner_id = caller)}

PollsQuery(caller, q) ==
    ApplySearch({p \in Visible(caller) :
                    /\ q.is_active # Null => p.is_active = TheValue(q.is_active)
                    /\ q.owner_id # Null => p.owner_id = TheValue(q.owner_id)},
                q.search)

\* Lines 391-395: the rows of get_my_polls.
MyPollsQuery(caller, q) ==
    ApplySearch({p \in polls :
                    /\ p.owner_id = caller
                    /\ q.is_active # Null => p.is_active = TheValue(q.is_active)},
                q.search)

\* create_paginated_response, with the request it answers.
Page(op, caller, q, ordered) ==
    [op |-> op, status |-> 200, code |-> "OK", caller |-> caller, request |-> q,
     items |-> [i \in DOMAIN ApplyPagination(ordered, q.page, q.size) |->
                   ApplyPagination(ordered, q.page, q.size)[i].id],
     meta |-> PaginationMeta(Len(ordered), q.page, q.size)]

GetPolls(caller, q) ==
    /\ IF ~PaginationValid(q.page, q.size)
       THEN resp' = Reply("get_polls", RequestInvalid)
       ELSE \E ordered \in Orderings(PollsQuery(caller, q), q.sort) :
                resp' = Page("get_polls", caller, q, ordered)
    /\ UNCHANGED <<polls, options, votes, seq, inflight, now, users>>

GetMyPolls(caller, q) ==
    /\ IF caller = None THEN resp' = Reply("get_my_polls", NotAuthenticated)
       ELSE IF ~PaginationValid(q.page, q.size)
       THEN resp' = Reply("get_my_polls", RequestInvalid)
       ELSE \E ordered \in Orderings(MyPollsQuery(caller, q), q.sort) :
                resp' = Page("get_my_polls", caller, q, ordered)
    /\ UNCHANGED <<polls, options, votes, seq, inflight, now, users>>

\* ----------------------------------------------------------- the accounts
\* Table users: username and email are both unique and NOT NULL.
UsersConstraints(rows) ==
    /\ \A a \in rows, b \in rows :
           (a.id # b.id) => (a.username # b.username /\ a.email # b.email)
    /\ \A a \in rows : a.username # Null /\ a.email # Null

\* EmailStr: one "@" with a local part before it and a dotted domain after it.
EmailValid(e) ==
    /\ Cardinality({i \in 1 .. Len(e) : e[i] = "@"}) = 1
    /\ \E i \in 2 .. Len(e) :
           /\ e[i] = "@"
           /\ \E j \in (i + 2) .. (Len(e) - 1) : e[j] = "."

\* EmailStr hands the handler the normalised address: the domain in lower case.
EmailNormal(e) ==
    LET at == CHOOSE i \in 1 .. Len(e) : e[i] = "@"
    IN  [i \in 1 .. Len(e) |-> IF i > at THEN LowerChar(e[i]) ELSE e[i]]

\* UserCreate after validation.
UserCreate(u) ==
    [username |-> u.username, email |-> EmailNormal(u.email),
     full_name |-> u.full_name, is_active |-> u.is_active]

\* The row db.add(User(...)) inserts; ids are handed out in order and no
\* endpoint deletes a user.
NewUser(user) ==
    [id |-> Cardinality(users) + 1, username |-> Some(user.username),
     email |-> Some(user.email), full_name |-> user.full_name,
     is_active |-> Some(user.is_active)]

DuplicateResource == Outcome(400, "DUPLICATE_RESOURCE")

\* register_user without its lookups and without the unique indexes.
RegisterUserOutcome_Unchecked(u) ==
    IF ~EmailValid(u.email) THEN RequestInvalid ELSE Outcome(201, "CREATED")

\* POST /auth/register: username looked up first, then email, then the insert.
RegisterUserOutcome(u) ==
    IF ~EmailValid(u.email) THEN RequestInvalid
    ELSE LET user == UserCreate(u)
         IN  IF \E row \in users : row.username = Some(user.username)
             THEN DuplicateResource
             ELSE IF \E row \in users : row.email = Some(user.email)
             THEN DuplicateResource
             ELSE IF ~UsersConstraints(users \cup {NewUser(user)})
             THEN DuplicateResource
             ELSE Outcome(201, "CREATED")

RegisterUser(u) ==
    LET out == RegisterUserOutcome(u)
    IN  /\ users' = IF out.status = 201
                    THEN users \cup {NewUser(UserCreate(u))} ELSE users
        /\ resp' = Reply("register_user", out)
        /\ UNCHANGED <<polls, options, votes, seq, inflight, now>>

\* POST /users/: email looked up first, then username, then the insert.
CreateUserOutcome(u) ==
    IF ~EmailValid(u.email) THEN RequestInvalid
    ELSE LET user == UserCreate(u)
         IN  IF \E row \in users : row.email = Some(user.email)
             THEN DuplicateResource
             ELSE IF \E row \in users : row.username = Some(user.username)
             THEN DuplicateResource
             ELSE IF ~UsersConstraints(users \cup {NewUser(user)})
             THEN DuplicateResource
             ELSE Outcome(201, "CREATED")

CreateUser(u) ==
    LET out == CreateUserOutcome(u)
    IN  /\ users' = IF out.status = 201
                    THEN users \cup {NewUser(UserCreate(u))} ELSE users
        /\ resp' = Reply("create_user", out)
        /\ UNCHANGED <<polls, options, votes, seq, inflight, now>>

\* PUT /users/me. The payload is a function over the fields that were sent;
\* each value is an Optional.
UserStrFields == {"email", "username", "full_name"}

IsUserStr(f, d) == f \in UserStrFields /\ d[f] # Null

UserNewValue(f, d) ==
    IF IsUserStr(f, d) THEN Some(Strip(TheValue(d[f]))) ELSE d[f]

UserCurrentValue(row, f, d) ==
    IF IsUserStr(f, d)
    THEN IF row[f] = Null \/ TheValue(row[f]) = <<>> THEN Null
         ELSE Some(Strip(TheValue(row[f])))
    ELSE row[f]

UserChangedFields(row, d) ==
    {f \in DOMAIN d : UserCurrentValue(row, f, d) # UserNewValue(f, d)}

UpdatedUser(row, d) ==
    [f \in DOMAIN row |->
        IF f \in UserChangedFields(row, d) THEN UserNewValue(f, d) ELSE row[f]]

\* The lookup that precedes the update for email and for username.
TakenByAnother(row, f, d) ==
    /\ f \in DOMAIN d
    /\ d[f] # Null
    /\ Some(Strip(TheValue(d[f]))) # row[f]
    /\ \E other \in users : other[f] = Some(Strip(TheValue(d[f])))
                            /\ other.id # row.id

UpdateUserProfileOutcome(caller, d) ==
    IF ~\E row \in users : row.id = caller THEN NotAuthenticated
    ELSE LET row == CHOOSE r \in users : r.id = caller
         IN  IF DOMAIN d = {} THEN Outcome(200, "OK")
             ELSE IF TakenByAnother(row, "email", d) THEN DuplicateResource
             ELSE IF TakenByAnother(row, "username", d) THEN DuplicateResource
             ELSE IF UserChangedFields(row, d) = {} THEN Outcome(200, "OK")
             ELSE IF ~UsersConstraints((users \ {row}) \cup {UpdatedUser(row, d)})
             THEN DuplicateResource
             ELSE Outcome(200, "UPDATED")

UpdateUserProfile(caller, d) ==
    LET out == UpdateUserProfileOutcome(caller, d)
    IN  /\ users' = IF out.code = "UPDATED"
                    THEN LET row == CHOOSE r \in users : r.id = caller
                         IN  (users \ {row}) \cup {UpdatedUser(row, d)}
                    ELSE users
        /\ resp' = Reply("update_user_profile", out)
        /\ UNCHANGED <<polls, options, votes, seq, inflight, now>>

\* The accounts the callers of the poll endpoints hold.
AccountNames == <<<<"a", "n", "n">>, <<"b", "o", "b">>, <<"c", "a", "t">>,
                  <<"d", "a", "n">>>>
AccountMails == <<<<"a", "@", "x", ".", "i", "o">>, <<"b", "@", "x", ".", "i", "o">>,
                  <<"c", "@", "x", ".", "i", "o">>, <<"d", "@", "x", ".", "i", "o">>>>
Accounts ==
    {[id |-> u, username |-> Some(AccountNames[u]), email |-> Some(AccountMails[u]),
      full_name |-> Null, is_active |-> Some(TRUE)] : u \in Users}

\* ------------------------------------------------------ the specifications
\* The store after Base.metadata.create_all: empty tables.
Init ==
    /\ polls = {}
    /\ options = {}
    /\ votes = {}
    /\ seq = [poll |-> 1, option |-> 1, vote |-> 1]
    /\ inflight = EmptyBag
    /\ resp = NoReply
    /\ now = 0
    /\ users = Accounts

TitleA == <<"P", "o", "l", "l", " ", "A">>
TitleB == <<"P", "o", "l", "l", " ", "B">>
TitlePadded == <<" ", "P", "o", "l", "l", " ", " ", "B", " ">>
TitleShort == <<"P", "o", "l", "l">>
DescA == <<"w", "h", "y">>
Blank == <<" ", " ">>
TextA == <<"Y", "e", "s">>
TextB == <<"N", "o">>

\* The steps of the vote_poll requests under way.
VoteSteps ==
    \/ \E r \in Pending : VoteReadOption(r)
    \/ \E r \in Pending : VotePreCheck(r)
    \/ \E r \in Pending : VoteDailyLimit(r)
    \/ \E r \in Pending : VoteCommit(r)

FlagUpdates ==
    {[is_active |-> Some(b)] : b \in BOOLEAN} \cup {[is_public |-> Some(b)] : b \in BOOLEAN}

\* Spec: concurrent voting.  Up to MaxInflight vote_poll requests run at once
\* on the poll and options user 1 makes, while that owner flips is_active and
\* is_public or deletes the poll.
RacePolls == 1 .. MaxRacePolls
RaceOptions == 1 .. MaxRaceOptions
RaceCreates ==
    {[title |-> TitleA, description |-> Null, is_active |-> TRUE, is_public |-> b]
        : b \in BOOLEAN}
RaceTexts == {TextA, TextB}
RaceOwners == {1}

Next ==
    \/ \E c \in RaceOwners, d \in RaceCreates : seq.poll <= MaxRacePolls /\ CreatePoll(c, d)
    \/ \E c \in RaceOwners, p \in RacePolls, d \in FlagUpdates : UpdatePoll(c, p, d)
    \/ \E c \in RaceOwners, p \in RacePolls : DeletePoll(c, p)
    \/ \E c \in RaceOwners, p \in RacePolls, t \in RaceTexts :
          seq.option <= MaxRaceOptions /\ AddPollOption(c, p, t)
    \/ \E c \in Callers, p \in RacePolls, o \in RaceOptions :
          BagCardinality(inflight) < MaxInflight /\ VoteBegin(c, p, o)
    \/ VoteSteps

Spec == Init /\ [][Next]_vars

\* SpecAccess: who may read, vote on and change a poll.  Requests run one at
\* a time, by every caller, on two polls.
PollIds == 1 .. MaxPolls
OptionIds == 1 .. MaxOptions
AccessCreates ==
    {[title |-> TitleA, description |-> Null, is_active |-> a, is_public |-> b]
        : a \in BOOLEAN, b \in BOOLEAN}
AccessUpdates ==
    {[is_active |-> Some(FALSE)], [is_public |-> Some(FALSE)], [title |-> Some(TitleShort)]}
AccessTexts == {TextA, Blank}

NextAccess ==
    \/ \E c \in Callers, d \in AccessCreates : seq.poll <= MaxPolls /\ CreatePoll(c, d)
    \/ \E c \in Callers, p \in PollIds, d \in AccessUpdates : UpdatePoll(c, p, d)
    \/ \E c \in Callers, p \in PollIds : DeletePoll(c, p)
    \/ \E c \in Callers, p \in PollIds, t \in AccessTexts :
          seq.option <= MaxOptions /\ AddPollOption(c, p, t)
    \/ \E c \in Callers, p \in PollIds : GetPoll(c, p)
    \/ \E c \in Callers, p \in PollIds, o \in OptionIds : VotePoll(c, p, o)

SpecAccess == Init /\ [][NextAccess]_vars

\* SpecEdit: the owner and another user create and edit polls, with every
\* kind of payload: fields left out, set to null, padded, blank, too short.
EditPolls == 1 .. MaxEditPolls
EditCreates ==
    {[title |-> t, description |-> d, is_active |-> TRUE, is_public |-> TRUE]
        : t \in {TitleA, TitleB}, d \in {Null, Some(DescA)}}
EditUpdates ==
    {<<>>,
     [title |-> Some(TitleB)], [title |-> Some(TitlePadded)], [title |-> Some(TitleShort)],
     [title |-> Null],
     [description |-> Some(DescA)], [description |-> Some(Blank)], [description |-> Null],
     [description |-> Some(TitleA)],
     [is_active |-> Some(FALSE)], [is_active |-> Some(TRUE)], [is_active |-> Null],
     [is_public |-> Some(FALSE)], [is_public |-> Null],
     [title |-> Some(TitleA), description |-> Some(DescA), is_active |-> Some(FALSE)]}

NextEdit ==
    \/ \E c \in Callers, d \in EditCreates : seq.poll <= MaxEditPolls /\ CreatePoll(c, d)
    \/ \E c \in Callers, p \in EditPolls, d \in EditUpdates : UpdatePoll(c, p, d)
    \/ \E c \in Callers, p \in EditPolls : DeletePoll(c, p)

SpecEdit == Init /\ [][NextEdit]_vars

\* SpecOwner: polls are created, updated, given options and voted on while
\* the clock moves; the update bodies carry owner_id and pub_date keys too.
MaxHours == 2

Tick ==
    /\ now < MaxHours
    /\ now' = now + 1
    /\ UNCHANGED <<polls, options, votes, seq, inflight, resp, users>>

MaxOwnerOptions == 1

OwnerCreates ==
    {[title |-> TitleA, description |-> Null, is_active |-> TRUE, is_public |-> TRUE]}
OwnerUpdates ==
    {[title |-> Some(TitleB)],
     [owner_id |-> Some(2)],
     [pub_date |-> Some(MaxHours)],
     [title |-> Some(TitleB), owner_id |-> Some(2), pub_date |-> Some(MaxHours)]}

NextOwner ==
    \/ \E c \in Callers, d \in OwnerCreates : seq.poll <= MaxPolls /\ CreatePoll(c, d)
    \/ \E c \in Callers, p \in PollIds, d \in OwnerUpdates : UpdatePoll(c, p, d)
    \/ \E c \in Callers, p \in PollIds :
          seq.option <= MaxOwnerOptions /\ AddPollOption(c, p, TextA)
    \/ \E c \in Callers, p \in PollIds, o \in 1 .. MaxOwnerOptions : VotePoll(c, p, o)
    \/ Tick

SpecOwner == Init /\ [][NextOwner]_vars

\* SpecRate: create_poll requests, one at a time, while the clock moves.  At
\* the start user 1 owns none, MAX_POLLS_PER_USER - 1 or MAX_POLLS_PER_USER
\* polls, the last POLL_CREATION_HOURLY_LIMIT of them created in the current
\* hour or none of them; the older ones were created five at a time, two
\* hours apart.
DigitChars == <<"0", "1", "2", "3", "4", "5", "6", "7", "8", "9">>
Numeral(i) ==
    <<DigitChars[((i \div 100) % 10) + 1], DigitChars[((i \div 10) % 10) + 1],
      DigitChars[(i % 10) + 1]>>
TitleNumbered(i) == <<"P", "o", "l", "l", " ">> \o Numeral(i)

FillProfiles ==
    {[owned |-> k, recent |-> r] :
        k \in {0, MAX_POLLS_PER_USER - 1, MAX_POLLS_PER_USER},
        r \in {0, POLL_CREATION_HOURLY_LIMIT}} \ {[owned |-> 0, recent |-> POLL_CREATION_HOURLY_LIMIT]}

FilledPolls(f) ==
    {[id |-> i, title |-> TitleNumbered(i), description |-> Null,
      is_active |-> TRUE, is_public |-> TRUE, owner_id |-> 1,
      pub_date |-> IF i > f.owned - f.recent THEN 0
                   ELSE 0 - 2 * (1 + ((f.owned - f.recent - i) \div POLL_CREATION_HOURLY_LIMIT))]
        : i \in 1 .. f.owned}

InitRate ==
    \E f \in FillProfiles :
        /\ polls = FilledPolls(f)
        /\ options = {}
        /\ votes = {}
        /\ seq = [poll |-> f.owned + 1, option |-> 1, vote |-> 1]
        /\ inflight = EmptyBag
        /\ resp = NoReply
        /\ now = 0
        /\ users = Accounts

MaxRatePolls == 6

RateCreate(title) ==
    [title |-> title, description |-> Null, is_active |-> TRUE, is_public |-> TRUE]

NextRate ==
    \/ \E c \in Callers, t \in {TitleNumbered(seq.poll), TitleNumbered(1)} :
          /\ Cardinality({p \in polls : p.pub_date >= 0}) < MaxRatePolls
          /\ CreatePoll(c, RateCreate(t))
    \/ Tick

SpecRate == InitRate /\ [][NextRate]_vars

\* Accounts only: registrations and profile updates against an empty users
\* table.
InitUsers ==
    /\ polls = {}
    /\ options = {}
    /\ votes = {}
    /\ seq = [poll |-> 1, option |-> 1, vote |-> 1]
    /\ inflight = EmptyBag
    /\ resp = NoReply
    /\ now = 0
    /\ users = {}

NameA == AccountNames[1]
NameB == AccountNames[2]
NamePadded == <<" ", "b", "o", "b", " ">>
MailA == AccountMails[1]
MailB == AccountMails[2]
MailUpperDomain == <<"a", "@", "X", ".", "I", "O">>
MailBad == <<"a", ".", "i", "o">>

Registrations ==
    {[username |-> n, email |-> e, full_name |-> Null, is_active |-> TRUE] :
        n \in {NameA, NameB, NamePadded},
        e \in {MailA, MailB, MailUpperDomain, MailBad}}

ProfileUpdates ==
    {<<>>,
     [username |-> Some(NameA)], [username |-> Some(NameB)],
     [username |-> Some(NamePadded)], [username |-> Null],
     [email |-> Some(MailA)], [email |-> Some(MailB)], [email |-> Null],
     [username |-> Some(NameB), email |-> Some(MailA)],
     [full_name |-> Some(NamePadded)], [is_active |-> Some(FALSE)]}

MaxUsers == 3

NextUsers ==
    \/ \E u \in Registrations : Cardinality(users) < MaxUsers /\ RegisterUser(u)
    \/ \E u \in Registrations : Cardinality(users) < MaxUsers /\ CreateUser(u)
    \/ \E c \in 1 .. MaxUsers, d \in ProfileUpdates : UpdateUserProfile(c, d)

SpecUsers == InitUsers /\ [][NextUsers]_vars

\* SpecOptions: add_poll_option requests, one at a time, on two active polls
\* of two owners, the first of which already has none, nine or ten options.
\* SpecOptionsRace: up to MaxAdders requests of the owner on the first poll
\* at once.
FillTexts ==
    << <<"a">>, <<"b">>, <<"c">>, <<"d">>, <<"e">>,
       <<"f">>, <<"g">>, <<"h">>, <<"i">>, <<"j">> >>
OptionFills == {0, MAX_POLL_OPTIONS - 1, MAX_POLL_OPTIONS}

FilledOptions(k) ==
    {[id |-> i, poll_id |-> 1, text |-> FillTexts[i], vote_count |-> 0] : i \in 1 .. k}

OptionPolls ==
    {[id |-> u, title |-> TitleA, description |-> Null, is_active |-> TRUE,
      is_public |-> TRUE, owner_id |-> u, pub_date |-> 0] : u \in Users}

InitOptions ==
    \E k \in OptionFills :
        /\ polls = OptionPolls
        /\ options = FilledOptions(k)
        /\ votes = {}
        /\ seq = [poll |-> NumUsers + 1, option |-> k + 1, vote |-> 1]
        /\ inflight = EmptyBag
        /\ resp = NoReply
        /\ now = 0
        /\ users = Accounts

TextLower == <<"y", "e", "s">>
TextUpperPadded == <<" ", "Y", "E", "S", " ">>
OptionTexts == {TextA, TextLower, TextUpperPadded, TextB}

NextOptions ==
    \E c \in Callers, p \in 1 .. NumUsers, t \in OptionTexts : AddPollOption(c, p, t)

SpecOptions == InitOptions /\ [][NextOptions]_vars

NextOptionsRace ==
    \/ \E t \in OptionTexts :
          BagCardinality(inflight) < MaxAdders /\ AddOptionBegin(1, 1, t)
    \/ \E r \in Pending : AddOptionCommit(r)

SpecOptionsRace == InitOptions /\ [][NextOptionsRace]_vars

\* SpecList: get_polls and get_my_polls on a store that nothing writes to.
\* The store holds MaxListPolls polls, the first of user 1, each public or
\* private, active or not, with options whose vote_count comes from
\* ListProfiles; its votes are those of voters 1, 2, ... who each voted once
\* on the poll.
ListProfiles == {<<>>, <<3>>, <<5>>, <<3, 3>>}

RECURSIVE SeqSum(_)
SeqSum(s) == IF s = <<>> THEN 0 ELSE Head(s) + SeqSum(Tail(s))

ListConfigs(owners) ==
    [owner_id : owners, is_public : BOOLEAN, is_active : BOOLEAN, profile : ListProfiles]

ListTables ==
    {t \in [1 .. MaxListPolls -> ListConfigs(Users)] : t[1].owner_id = 1}

\* The options before those of poll i, and the votes before those of poll i.
OptionsBefore(t, i) == SeqSum([j \in 1 .. (i - 1) |-> Len(t[j].profile)])
VotesBefore(t, i) == SeqSum([j \in 1 .. (i - 1) |-> SeqSum(t[j].profile)])

ListPolls(t) ==
    {[id |-> i, title |-> IF i = 1 THEN TitleA ELSE TitleB, description |-> Null,
      is_active |-> t[i].is_active, is_public |-> t[i].is_public,
      owner_id |-> t[i].owner_id, pub_date |-> i - 1] : i \in DOMAIN t}

ListOptions(t) ==
    UNION {{[id |-> OptionsBefore(t, i) + k, poll_id |-> i,
             text |-> IF k = 1 THEN TextA ELSE TextB,
             vote_count |-> t[i].profile[k]] : k \in DOMAIN t[i].profile}
           : i \in DOMAIN t}

ListVotes(t) ==
    UNION {UNION {{[id |-> VotesBefore(t, i) + SeqSum(SubSeq(t[i].profile, 1, k - 1)) + u,
                    poll_option_id |-> OptionsBefore(t, i) + k, poll_id |-> i,
                    user_id |-> SeqSum(SubSeq(t[i].profile, 1, k - 1)) + u,
                    created_at |-> 0] : u \in 1 .. t[i].profile[k]}
                  : k \in DOMAIN t[i].profile}
           : i \in DOMAIN t}

InitList ==
    \E t \in ListTables :
        /\ polls = ListPolls(t)
        /\ options = ListOptions(t)
        /\ votes = ListVotes(t)
        /\ seq = [poll |-> MaxListPolls + 1,
                  option |-> OptionsBefore(t, MaxListPolls + 1) + 1,
                  vote |-> VotesBefore(t, MaxListPolls + 1) + 1]
        /\ inflight = EmptyBag
        /\ resp = NoReply
        /\ now = MaxListPolls
        /\ users = Accounts

SearchB == <<"b">>
ListRequests ==
    [search : {Null, Some(SearchB)},
     is_active : {Null, Some(TRUE), Some(FALSE)},
     owner_id : {Null} \cup {Some(u) : u \in Users},
     sort : SortOption,
     page : 1 .. MaxListPage,
     size : 1 .. MaxListSize]
MyListRequests == {q \in ListRequests : q.owner_id = Null}

\* A client's session: a first request with any parameters, then the same
\* request again or the request for the page after it.
Listed == resp.op \in {"get_polls", "get_my_polls"} /\ resp.status = 200

ListRequest(op, caller, q) ==
    IF op = "get_polls" THEN GetPolls(caller, q) ELSE GetMyPolls(caller, q)

FirstGetPolls ==
    /\ resp = NoReply
    /\ \E c \in Callers, q \in ListRequests : GetPolls(c, q)

FirstGetMyPolls ==
    /\ resp = NoReply
    /\ \E c \in Callers, q \in MyListRequests : GetMyPolls(c, q)

SameRequestAgain ==
    /\ Listed
    /\ ListRequest(resp.op, resp.caller, resp.request)

NextPageRequest ==
    /\ Listed
    /\ resp.request.page < MaxListPage
    /\ ListRequest(resp.op, resp.caller, [resp.request EXCEPT !.page = @ + 1])

NextList == FirstGetPolls \/ FirstGetMyPolls \/ SameRequestAgain \/ NextPageRequest

SpecList == InitList /\ [][NextList]_vars

\* SpecPage: calculate_pagination_metadata on every total, page and size up
\* to MaxTotal, MaxPage and MaxSize.
CalculatePaginationMetadata(total, page, size) ==
    /\ resp' = [op |-> "calculate_pagination_metadata", status |-> 200, code |-> "OK",
                meta |-> PaginationMeta(total, page, size)]
    /\ UNCHANGED <<polls, options, votes, seq, inflight, now, users>>

NextPage ==
    \E total \in 0 .. MaxTotal, page \in 1 .. MaxPage, size \in 1 .. MaxSize :
        CalculatePaginationMetadata(total, page, size)

SpecPage == Init /\ [][NextPage]_vars

\* ================================================================= properties
VotesOf(poll_id, user) == {v \in votes : v.poll_id = poll_id /\ v.user_id = user}
VotesOn(poll_id) == {v \in votes : v.poll_id = poll_id}

\* C1: in every state any interleaving of vote_poll requests reaches, at most
\* one Vote row exists for each pair (poll, user).
C1_OneVotePerUserPerPoll ==
    \A u \in Users, p \in RacePolls : Cardinality(VotesOf(p, u)) <= 1

\* C1's case: a user has a Vote on a poll while another request of the same
\* user on that poll, for another option, has passed the duplicate-vote check
\* and is about to commit.
C1_Witness ==
    \E v \in votes, r \in Pending :
        /\ r.pc = "commit"
        /\ r.user = v.user_id
        /\ r.poll_id = v.poll_id
        /\ r.option_id # v.poll_option_id

\* C2: the sum of vote_count over a poll's options is the number of vote_poll
\* requests on the poll that succeeded.  Each success adds one Vote row and
\* rows go only with their poll, so the successes on a poll are its Vote rows.
C2_CountsMatchSuccessfulVotes ==
    \A p \in polls : TotalVotes(p.id) = Cardinality(VotesOn(p.id))

\* C3: the commit of a vote_poll request is all or nothing: when it answers
\* with an error the Vote rows and every vote_count are as before; when it
\* succeeds there is one more Vote row, the request's, and the vote_count of
\* its option is one higher than it was.
C3_VoteIsAtomic ==
    [][\A r \in Pending :
          VoteCommit(r) =>
              IF resp'.status = 200
              THEN /\ votes' = votes \cup {NewVote(r)}
                   /\ NewVote(r) \notin votes
                   /\ TotalVotes(r.poll_id)' = TotalVotes(r.poll_id) + 1
              ELSE votes' = votes /\ options' = options]_vars

\* The half of C3 about errors alone.
C3_ErrorLeavesNothing ==
    [][\A r \in Pending :
          (VoteCommit(r) /\ resp'.status # 200) => (votes' = votes /\ options' = options)]_vars

\* C4: a request that passed the duplicate-vote check and loses at the
\* (poll_id, user_id) uniqueness constraint is answered ALREADY_VOTED.
C4_RaceLoserAlreadyVoted ==
    [][\A r \in Pending :
          (VoteCommit(r) /\ VotesOf(r.poll_id, r.user) # {}) => resp'.code = "ALREADY_VOTED"]_vars

\* The caller may read the poll: it is public or the caller owns it.
Accessible(poll, c) == poll.is_public \/ poll.owner_id = c
OptionIn(poll_id, option_id) == \E o \in OptionsOf(poll_id) : o.id = option_id

\* C5: a vote_poll request by a user who has a Vote on the active, accessible
\* poll, for any option of the poll, is answered ALREADY_VOTED and changes no
\* Vote row and no vote_count.
C5_RepeatVoteAlreadyVoted ==
    [][\A c \in Users, p \in PollIds, o \in OptionIds :
          (/\ VotePoll(c, p, o)
           /\ \E poll \in PollRows(p) : poll.is_active /\ Accessible(poll, c)
           /\ OptionIn(p, o)
           /\ VotesOf(p, c) # {})
          => /\ resp'.code = "ALREADY_VOTED"
             /\ votes' = votes
             /\ options' = options]_vars

\* C6: a vote_poll request of a user who may read the poll, when it is denied
\* for an inactive poll, an option of another poll, a repeated vote or the
\* daily cap, is answered with that reason's code and never with status 500.
C6_VoteDenialsCarryTheirCode ==
    [][\A c \in Users, p \in PollIds, o \in OptionIds :
          VotePoll(c, p, o) =>
              \A poll \in PollRows(p) :
                  Accessible(poll, c) =>
                      /\ resp'.status # 500
                      /\ ~poll.is_active => resp'.code = "POLL_INACTIVE"
                      /\ (/\ poll.is_active
                          /\ OptionRows(o) # {}
                          /\ ~OptionIn(p, o)) => resp'.code = "OPTION_NOT_IN_POLL"
                      /\ (/\ poll.is_active
                          /\ OptionIn(p, o)
                          /\ VotesOf(p, c) # {}) => resp'.code = "ALREADY_VOTED"
                      /\ (/\ poll.is_active
                          /\ OptionIn(p, o)
                          /\ VotesOf(p, c) = {}
                          /\ DailyVoteCount(c) >= MAX_VOTES_PER_USER_PER_DAY)
                         => resp'.code = "VOTE_LIMIT_EXCEEDED"]_vars

\* C7: a vote_poll request on a private poll by an anonymous caller or by a
\* user other than the owner is denied (401, 403) and records nothing; and
\* every Vote row added by a request that saw its poll private (is_public,
\* line 1126) is the owner's.
C7_PrivatePollVotesAreOwners ==
    [][/\ \A c \in Callers, p \in RacePolls, o \in RaceOptions :
             (/\ VoteBegin(c, p, o)
              /\ PollRows(p) # {}
              /\ ~First(PollRows(p)).is_public
              /\ First(PollRows(p)).owner_id # c)
             => /\ resp'.op = "vote_poll"
                /\ resp'.status = (IF c = None THEN 401 ELSE 403)
                /\ inflight' = inflight
                /\ votes' = votes
                /\ options' = options
       /\ \A r \in Pending :
             (VoteCommit(r) /\ votes' # votes /\ ~r.is_public)
             => \E p \in polls : p.id = r.poll_id /\ p.owner_id = r.user]_vars

\* C7's case: the owner's Vote stands on a private poll and another user's
\* request on it has just been refused.
C7_Witness ==
    /\ resp.op = "vote_poll"
    /\ resp.code = "ACCESS_DENIED"
    /\ \E v \in votes, p \in polls :
          p.id = v.poll_id /\ ~p.is_public /\ v.user_id = p.owner_id

\* C8: get_poll on an existing poll answers from is_public and the caller
\* alone: a public poll is returned to every caller; a private poll is refused
\* 401 to an anonymous caller, 403 to a user who is not its owner, and
\* returned to its owner; is_active plays no part.
C8_ReadDecidedByVisibilityAndCaller ==
    [][\A c \in Callers, p \in PollIds :
          GetPoll(c, p) =>
              \A poll \in PollRows(p) :
                  /\ resp'.op = "get_poll"
                  /\ resp'.status = (IF poll.is_public THEN 200
                                     ELSE IF c = None THEN 401
                                     ELSE IF c # poll.owner_id THEN 403
                                     ELSE 200)
                  /\ resp'.status = 401 => resp'.code = "AUTHENTICATION_REQUIRED"
                  /\ resp'.status = 403 => resp'.code = "ACCESS_DENIED"]_vars

\* C8's case: a user who is not the owner has just been refused a private
\* poll while an inactive public poll is there to be read.
C8_Witness ==
    /\ resp = [op |-> "get_poll", status |-> 403, code |-> "ACCESS_DENIED"]
    /\ \E q \in polls : ~q.is_public
    /\ \E q \in polls : q.is_public /\ ~q.is_active

\* The request was refused with this status and changed no poll, option or vote.
Refused(status) == resp'.status = status /\ UNCHANGED <<polls, options, votes>>

\* C9 as stated: update_poll, delete_poll and add_poll_option on an existing
\* poll by a caller who is not its owner are answered 401 when there is no
\* caller and 403 when the caller is another user, and change no poll, option
\* or vote.
C9_NonOwnerGets401Or403 ==
    [][\A c \in Callers, p \in PollIds :
          (\E poll \in PollRows(p) : poll.owner_id # c) =>
              /\ resp'.op = "update_poll" =>
                    \A d \in AccessUpdates :
                        UpdatePoll(c, p, d) => Refused(IF c = None THEN 401 ELSE 403)
              /\ resp'.op = "delete_poll" =>
                    (DeletePoll(c, p) => Refused(IF c = None THEN 401 ELSE 403))
              /\ resp'.op = "add_poll_option" =>
                    \A t \in AccessTexts :
                        AddPollOption(c, p, t) => Refused(IF c = None THEN 401 ELSE 403)]_vars

\* C9, amended: update_poll, delete_poll and add_poll_option on an existing
\* poll by a caller who is not its owner change no poll, option or vote, and
\* are answered 401 when there is no caller; when the caller is another user
\* they are answered 403 if the body passes the request schema and 422 if it
\* does not.
C9_NonOwnerChangesNothing ==
    [][\A c \in Callers, p \in PollIds :
          (\E poll \in PollRows(p) : poll.owner_id # c) =>
              /\ resp'.op = "update_poll" =>
                    \A d \in AccessUpdates :
                        UpdatePoll(c, p, d) =>
                            Refused(IF c = None THEN 401
                                    ELSE IF ~PollUpdateValid(d) THEN 422 ELSE 403)
              /\ resp'.op = "delete_poll" =>
                    (DeletePoll(c, p) => Refused(IF c = None THEN 401 ELSE 403))
              /\ resp'.op = "add_poll_option" =>
                    \A t \in AccessTexts :
                        AddPollOption(c, p, t) =>
                            Refused(IF c = None THEN 401
                                    ELSE IF ~OptionTextValid(t) THEN 422 ELSE 403)]_vars

\* C9's case: a poll with an option and a vote stands after a user who is
\* not its owner was refused its deletion.
C9_Witness ==
    /\ resp = [op |-> "delete_poll", status |-> 403, code |-> "NOT_AUTHORIZED_DELETE"]
    /\ \E v \in votes, q \in polls : v.poll_id = q.id /\ OptionsOf(q.id) # {}

\* C10: update_poll by the owner with a payload that passes the request
\* schema and a title no other poll of the owner holds is answered 200, and
\* the poll then holds every value the payload supplies.
C10_OwnerUpdateSucceeds ==
    [][\A c \in Users, p \in EditPolls, d \in EditUpdates :
          (/\ UpdatePoll(c, p, d)
           /\ \E poll \in PollRows(p) : poll.owner_id = c
           /\ PollUpdateValid(d)
           /\ ~DuplicateTitle(c, p, UpdateData(d)))
          => /\ resp'.status = 200
             /\ \A q \in polls' :
                   q.id = p =>
                       \A f \in DOMAIN d :
                           d[f] # Null => Column(q, f) = NewValue(f, UpdateData(d))]_vars

\* C11: a vote_poll request on an existing inactive poll is answered
\* POLL_INACTIVE whoever the caller is and whether the poll is public or not.
C11_InactivePollDeniesEveryVoter ==
    [][\A c \in Callers, p \in PollIds, o \in OptionIds :
          (VotePoll(c, p, o) /\ \E poll \in PollRows(p) : ~poll.is_active)
          => resp'.code = "POLL_INACTIVE"]_vars

OptionIdsOf(poll_id) == {o.id : o \in OptionsOf(poll_id)}

\* C12 as stated: add_poll_option on an existing inactive poll by any
\* authenticated caller is answered POLL_INACTIVE and adds no option.
C12_InactivePollAnswersInactive ==
    [][\A c \in Users, p \in PollIds, t \in AccessTexts :
          (AddPollOption(c, p, t) /\ \E poll \in PollRows(p) : ~poll.is_active)
          => resp'.code = "POLL_INACTIVE" /\ options' = options]_vars

\* C12, amended: add_poll_option on an existing inactive poll adds no option;
\* it is answered 422 when the text fails the request schema, else 403 when the
\* caller is not the owner, else 400 POLL_INACTIVE.  While a poll is inactive
\* and exists, its set of options stays as it is.
C12_InactivePollGetsNoOption ==
    [][/\ resp'.op = "add_poll_option" =>
             \A c \in Users, p \in PollIds, t \in AccessTexts :
                 (AddPollOption(c, p, t) /\ \E poll \in PollRows(p) : ~poll.is_active)
                 => /\ options' = options
                    /\ resp'.status = (IF ~OptionTextValid(t) THEN 422
                                       ELSE IF First(PollRows(p)).owner_id # c THEN 403
                                       ELSE 400)
                    /\ resp'.status = 400 => resp'.code = "POLL_INACTIVE"
       /\ \A q \in polls :
             (~q.is_active /\ \E n \in polls' : n.id = q.id /\ ~n.is_active)
             => OptionIdsOf(q.id)' = OptionIdsOf(q.id)]_vars

\* C12's case: the owner of an inactive poll that has an option has just been
\* refused another one.
C12_Witness ==
    /\ resp = [op |-> "add_poll_option", status |-> 400, code |-> "POLL_INACTIVE"]
    /\ \E q \in polls : ~q.is_active /\ OptionsOf(q.id) # {}

\* C19: a vote_poll request without a caller is answered 401 and adds no Vote,
\* whatever poll id and option id it names.
C19_AnonymousVoteGets401 ==
    [][\A p \in PollIds, o \in OptionIds :
          VotePoll(None, p, o) => resp'.status = 401 /\ votes' = votes]_vars

\* No two polls of one owner hold the same title.
UniqueTitlePerOwner ==
    \A p, q \in polls : (p.owner_id = q.owner_id /\ p.title = q.title) => p = q

\* Another poll of this owner holds this title.
TitleTaken(owner, title, poll_id) ==
    \E q \in polls : q.owner_id = owner /\ q.title = title /\ q.id # poll_id

\* create_poll answers 409 exactly when another poll of the caller holds the title.
CreateTitleDecision ==
    \A c \in Users, d \in EditCreates :
        CreatePollOutcome(c, d) =
            (IF TitleTaken(c, Strip(JoinSplit(d.title)), 0)
             THEN Outcome(409, "DUPLICATE_POLL_TITLE")
             ELSE Outcome(201, "CREATED"))

\* update_poll by the owner, with a valid payload that names a title, answers
\* 409 exactly when another poll of the caller holds the title.
UpdateTitleDecision ==
    \A c \in Users, p \in EditPolls, d \in EditUpdates :
        (/\ \E poll \in PollRows(p) : poll.owner_id = c
         /\ PollUpdateValid(d)
         /\ "title" \in DOMAIN d
         /\ d.title # Null)
        => UpdatePollOutcome(c, p, d) =
               (IF TitleTaken(c, Strip(JoinSplit(TheValue(d.title))), p)
                THEN Outcome(409, "DUPLICATE_POLL_TITLE")
                ELSE Outcome(200, "OK"))

Calculated == resp.op = "calculate_pagination_metadata"

C14_PaginationMetadata ==
    Calculated =>
        LET m == resp.meta IN
        /\ m.pages >= 1
        /\ m.pages * m.size >= m.total
        /\ m.pages > 1 => (m.pages - 1) * m.size < m.total
        /\ m.has_next = (m.page < m.pages)
        /\ m.has_prev = (m.page > 1)
        /\ m.total = 25 /\ m.size = 10 /\ m.page = 3 =>
               m.pages = 3 /\ ~m.has_next /\ m.has_prev
        /\ m.total = 0 => m.pages = 1 /\ ~m.has_next

C14_Witness ==
    /\ Calculated
    /\ resp.meta.total = 25 /\ resp.meta.size = 10 /\ resp.meta.page = 3
    /\ resp.meta.pages = 3

\* C13: whatever the search, is_active, owner_id, sort and page parameters,
\* every poll get_polls lists is public or owned by the caller, and the total
\* counts the polls that match the parameters among those only: a private
\* poll of another user is neither listed nor counted, also when owner_id
\* names that user.
ListedPolls == resp.op = "get_polls" /\ resp.status = 200

MayBeShown(p, caller) == p.is_public \/ (caller # None /\ p.owner_id = caller)

Matches(p, q) ==
    /\ q.is_active # Null => p.is_active \in q.is_active
    /\ q.owner_id # Null => p.owner_id \in q.owner_id
    /\ q.search # Null => Contains(Lower(p.title), Lower(TheValue(q.search)))

C13_ListingShowsOnlyVisiblePolls ==
    ListedPolls =>
        /\ \A i \in DOMAIN resp.items :
              \E p \in polls : p.id = resp.items[i] /\ MayBeShown(p, resp.caller)
        /\ resp.meta.total =
              Cardinality({p \in polls : MayBeShown(p, resp.caller) /\ Matches(p, resp.request)})

C13_Witness ==
    /\ ListedPolls
    /\ resp.caller = 2 /\ resp.request.owner_id = Some(1)
    /\ \E p \in polls : p.owner_id = 1 /\ ~p.is_public /\ Matches(p, resp.request)
    /\ resp.meta.total = 1 /\ Len(resp.items) = 1

\* C17: with sort=votes_desc the polls of a page are in non-increasing order
\* of the sum of vote_count over each poll's options, and no poll of the page
\* after it has a greater sum than a poll of this page (non-decreasing and
\* smaller for votes_asc).  A poll without options has sum 0 and is listed:
\* a page that holds the whole result holds every matching poll.
ListedByVotes == Listed /\ resp.request.sort \in {"votes_desc", "votes_asc"}

ShownBy(p, op, caller) ==
    IF op = "get_polls" THEN MayBeShown(p, caller) ELSE p.owner_id = caller

InVotesOrder(sort, first, second) ==
    IF sort = "votes_desc" THEN TotalVotes(first) >= TotalVotes(second)
    ELSE TotalVotes(first) <= TotalVotes(second)

IsNextPageOf(later, earlier) ==
    /\ later.op = earlier.op /\ later.status = 200 /\ earlier.status = 200
    /\ later.caller = earlier.caller
    /\ later.request = [earlier.request EXCEPT !.page = @ + 1]

VotesOrderOnPage ==
    ListedByVotes =>
        /\ \A i, j \in DOMAIN resp.items :
              i < j => InVotesOrder(resp.request.sort, resp.items[i], resp.items[j])
        /\ resp.request.page = 1 /\ resp.meta.total <= resp.request.size =>
              \A p \in polls :
                  ShownBy(p, resp.op, resp.caller) /\ Matches(p, resp.request) =>
                      \E i \in DOMAIN resp.items : resp.items[i] = p.id

VotesOrderAcrossPages ==
    ListedByVotes /\ Listed' /\ IsNextPageOf(resp', resp) =>
        \A i \in DOMAIN resp.items, j \in DOMAIN resp'.items :
            InVotesOrder(resp.request.sort, resp.items[i], resp'.items[j])

C17_VotesSortFollowsTheSum == []VotesOrderOnPage /\ [][VotesOrderAcrossPages]_vars

C17_Witness ==
    /\ ListedByVotes /\ resp.request.sort = "votes_desc" /\ Len(resp.items) = 2
    /\ OptionsOf(resp.items[2]) = {}
    /\ Cardinality(OptionsOf(resp.items[1])) = 2 /\ TotalVotes(resp.items[1]) = 6

\* C18: with sort=votes_desc a poll that has an option with vote_count 5
\* comes before every poll whose largest option vote_count is 3, whatever
\* other options the two polls have.
HasFiveVoteOption(poll_id) == \E o \in OptionsOf(poll_id) : o.vote_count = 5
LargestIsThree(poll_id) == LargestVoteCount(poll_id) = 3
ListedMostVotedFirst == Listed /\ resp.request.sort = "votes_desc"

C18_FiveVoteOptionComesFirst ==
    ListedMostVotedFirst =>
        \A i, j \in DOMAIN resp.items :
            HasFiveVoteOption(resp.items[i]) /\ LargestIsThree(resp.items[j]) => i < j

\* C18 as the code has it: the poll with the 5-vote option comes before a
\* poll whose largest option vote_count is 3 when the vote_counts of that
\* poll add up to less than its own, on one page and from one page to the next.
FiveBeforeSmallerSumOnPage ==
    ListedMostVotedFirst =>
        \A i, j \in DOMAIN resp.items :
            /\ HasFiveVoteOption(resp.items[i]) /\ LargestIsThree(resp.items[j])
            /\ TotalVotes(resp.items[j]) < TotalVotes(resp.items[i])
            => i < j

FiveBeforeSmallerSumAcrossPages ==
    ListedMostVotedFirst /\ Listed' /\ IsNextPageOf(resp', resp) =>
        \A i \in DOMAIN resp.items, j \in DOMAIN resp'.items :
            ~(/\ HasFiveVoteOption(resp'.items[j]) /\ LargestIsThree(resp.items[i])
              /\ TotalVotes(resp.items[i]) < TotalVotes(resp'.items[j]))

C18_LargerSumComesFirst ==
    []FiveBeforeSmallerSumOnPage /\ [][FiveBeforeSmallerSumAcrossPages]_vars

C18_Witness ==
    /\ ListedMostVotedFirst /\ Len(resp.items) = 2
    /\ HasFiveVoteOption(resp.items[1]) /\ LargestIsThree(resp.items[2])
    /\ TotalVotes(resp.items[2]) = 3

\* C15: with no write between the requests, the pages of a listing are
\* consecutive pieces of the ordered result: page k holds the matching polls
\* at positions (k-1)*size+1 .. k*size, so the page lengths add up to the
\* total, and the total is the number of polls that match after visibility,
\* filters and search, whatever the offset and limit.
MatchingPolls(r) ==
    {p \in polls : ShownBy(p, r.op, r.caller) /\ Matches(p, r.request)}

ExpectedLength(r) ==
    LET before == (r.request.page - 1) * r.request.size
        left == IF r.meta.total > before THEN r.meta.total - before ELSE 0
    IN IF left < r.request.size THEN left ELSE r.request.size

IsPageOf(r, ordered) ==
    /\ Len(r.items) = ExpectedLength(r)
    /\ \A n \in DOMAIN r.items :
          r.items[n] = ordered[(r.request.page - 1) * r.request.size + n].id

C15_PagesAreSlicesOfTheOrderedResult ==
    [][/\ Listed' =>
              /\ resp'.meta.total = Cardinality(MatchingPolls(resp'))
              /\ Len(resp'.items) = ExpectedLength(resp')
       /\ Listed /\ Listed' /\ IsNextPageOf(resp', resp) =>
              \E ordered \in Orderings(MatchingPolls(resp), resp.request.sort) :
                  IsPageOf(resp, ordered) /\ IsPageOf(resp', ordered)]_vars

\* C16: listing by votes is deterministic: polls with equal total votes come
\* in the order of their ids, the same request made again with no write in
\* between returns the same items in the same order, and the page after a
\* page repeats none of its polls.
C16_VotesSortIsDeterministic ==
    [][ListedByVotes /\ Listed' =>
          /\ \A i, j \in DOMAIN resp.items :
                i < j /\ TotalVotes(resp.items[i]) = TotalVotes(resp.items[j]) =>
                    resp.items[i] < resp.items[j]
          /\ resp'.op = resp.op /\ resp'.caller = resp.caller
                /\ resp'.request = resp.request => resp'.items = resp.items
          /\ IsNextPageOf(resp', resp) =>
                \A i \in DOMAIN resp.items, j \in DOMAIN resp'.items :
                    resp.items[i] # resp'.items[j]]_vars

\* C21: update_poll changes only the fields the payload names whose new value
\* differs from the stored one, strings compared after trimming: after an
\* accepted update each named field holds the value supplied, each omitted
\* field, the id, the owner and pub_date hold what they held, so an empty
\* payload or one that repeats the stored values changes nothing; a refused
\* update changes nothing either.
PollFields == {"title", "description", "is_active", "is_public"}

\* The value a payload supplies for a field, as the schema hands it on.
Supplied(d, f) ==
    IF d[f] = Null THEN Null
    ELSE IF f = "title" THEN Some(Strip(JoinSplit(TheValue(d[f]))))
    ELSE IF f = "description"
    THEN (IF Strip(TheValue(d[f])) = <<>> THEN Null
          ELSE Some(Strip(JoinSplit(TheValue(d[f])))))
    ELSE d[f]

PartialUpdateOf(old, new, d) ==
    /\ \A f \in PollFields :
          Column(new, f) = IF f \in DOMAIN d THEN Supplied(d, f) ELSE Column(old, f)
    /\ new.id = old.id /\ new.owner_id = old.owner_id /\ new.pub_date = old.pub_date
    /\ (\A f \in DOMAIN d : Supplied(d, f) = Column(old, f)) => new = old

UpdateIsPartial ==
    \A c \in Callers, p \in EditPolls, d \in EditUpdates :
        UpdatePollOutcome(c, p, d).status = 200 =>
            PartialUpdateOf(First(PollRows(p)),
                            UpdatedPoll(First(PollRows(p)), UpdateData(d)), d)

UpdateTouchesOnePoll ==
    resp'.op = "update_poll" =>
        /\ UNCHANGED <<options, votes, seq>>
        /\ resp'.status # 200 => polls' = polls
        /\ {q.id : q \in polls'} = {q.id : q \in polls}
        /\ Cardinality(polls' \ polls) <= 1

C21_UpdateIsPartial == []UpdateIsPartial /\ [][UpdateTouchesOnePoll]_vars

\* C21's case: a payload that names title, description and is_active was
\* accepted for a poll that already held that title; is_public, left out,
\* is still what create_poll set.
C21_Witness ==
    /\ resp = [op |-> "update_poll", status |-> 200, code |-> "OK"]
    /\ \E q \in polls :
          /\ q.title = TitleA /\ q.description = Some(DescA)
          /\ ~q.is_active /\ q.is_public

\* C22: no poll has more than MAX_POLL_OPTIONS options, whether the
\* add_poll_option requests run one at a time or at once on one poll, and a
\* request answered MAX_OPTIONS_EXCEEDED adds nothing.
C22_OptionsNeverExceedTheMaximum ==
    /\ [](\A p \in polls : Cardinality(OptionsOf(p.id)) <= MAX_POLL_OPTIONS)
    /\ [][resp'.code = "MAX_OPTIONS_EXCEEDED" => options' = options]_vars

\* C23: no two options of one poll have texts that are equal ignoring case.
\* add_poll_option by the owner of an active poll that is not full, with a
\* text that equals ignoring case the text of an option of that poll, is
\* answered DUPLICATE_POLL_OPTION and adds nothing; a text only options of
\* another poll have is accepted.
SameIgnoringCase(a, b) == Lower(a) = Lower(b)

OptionTextsUnique ==
    \A o1, o2 \in options :
        (o1.poll_id = o2.poll_id /\ SameIgnoringCase(o1.text, o2.text)) => o1 = o2

AddTextDecision ==
    \A c \in Users, p \in 1 .. NumUsers, t \in OptionTexts :
        (/\ \E poll \in PollRows(p) : poll.owner_id = c /\ poll.is_active
         /\ Cardinality(OptionsOf(p)) < MAX_POLL_OPTIONS)
        => AddPollOptionOutcome(c, p, t) =
               (IF \E o \in OptionsOf(p) : SameIgnoringCase(o.text, Strip(JoinSplit(t)))
                THEN Outcome(400, "DUPLICATE_POLL_OPTION")
                ELSE Outcome(201, "CREATED"))

C23_OptionTextsUniqueIgnoringCase ==
    /\ [](OptionTextsUnique /\ AddTextDecision)
    /\ [][resp'.code = "DUPLICATE_POLL_OPTION" => options' = options]_vars

\* C23's case: two polls each have an option "yes" in some case, and a
\* request with that text in another case has just been refused.
C23_Witness ==
    /\ resp = [op |-> "add_poll_option", status |-> 400, code |-> "DUPLICATE_POLL_OPTION"]
    /\ \E o1, o2 \in options :
          /\ o1.poll_id # o2.poll_id
          /\ SameIgnoringCase(o1.text, o2.text) /\ o1.text # o2.text

\* C24: every option belongs to a stored poll and every vote to a stored poll,
\* a stored option and a user; delete_poll succeeds for the owner only, and
\* then the poll, its options and the votes cast on it are gone while the
\* polls, options and votes of every other poll are what they were.
NoOrphans ==
    /\ \A o \in options : PollRows(o.poll_id) # {}
    /\ \A v \in votes :
          /\ PollRows(v.poll_id) # {}
          /\ OptionRows(v.poll_option_id) # {}
          /\ v.user_id \in Users

DeleteIsTheOwners ==
    \A c \in Callers, p \in PollIds :
        DeletePollOutcome(c, p).status = 200 =>
            \E poll \in PollRows(p) : poll.owner_id = c /\ c # None

DeleteTakesThePollAlong ==
    (resp'.op = "delete_poll" /\ resp'.status = 200) =>
        \E gone \in polls :
            /\ polls' = polls \ {gone}
            /\ options' = {o \in options : o.poll_id # gone.id}
            /\ votes' = {v \in votes : v.poll_id # gone.id}

C24_DeleteCascadesAndLeavesNoOrphans ==
    [](NoOrphans /\ DeleteIsTheOwners) /\ [][DeleteTakesThePollAlong]_vars

\* C24's case: two polls had an option and a vote each; one of them has just
\* been deleted and the other still has its option and its vote.
C24_Witness ==
    /\ resp = [op |-> "delete_poll", status |-> 200, code |-> "OK"]
    /\ seq.option = 3 /\ seq.vote = 3
    /\ Cardinality(polls) = 1 /\ Cardinality(options) = 1 /\ Cardinality(votes) = 1

\* C25: every stored poll has a title that differs from its description,
\* compared ignoring case and surrounding whitespace, after create_poll and
\* after update_poll.
C25_TitleDiffersFromDescription ==
    \A p \in polls :
        p.description # Null =>
            Strip(Lower(p.title)) # Strip(Lower(TheValue(p.description)))

\* C26: no two users share a username or an email. A registration whose
\* username or (normalised) email another user holds, and a profile update
\* whose new username or email another user holds, is answered 400
\* DUPLICATE_RESOURCE, and a request answered so leaves the users table as
\* it was.
UsersUnique ==
    \A a \in users, b \in users :
        (a # b) => /\ a.id # b.id
                   /\ a.username # b.username
                   /\ a.email # b.email

RegistrationDuplicates(u) ==
    /\ EmailValid(u.email)
    /\ \E row \in users : \/ row.username = Some(u.username)
                          \/ row.email = Some(EmailNormal(u.email))

ProfileUpdateDuplicates(row, d) ==
    \E f \in {"username", "email"} \cap DOMAIN d :
        /\ d[f] # Null
        /\ \E other \in users : /\ other.id # row.id
                                /\ other[f] = Some(Strip(TheValue(d[f])))

DuplicatesAreRefused ==
    /\ \A u \in Registrations :
           RegistrationDuplicates(u) =>
               /\ RegisterUserOutcome(u) = DuplicateResource
               /\ CreateUserOutcome(u) = DuplicateResource
    /\ \A row \in users, d \in ProfileUpdates :
           ProfileUpdateDuplicates(row, d) =>
               UpdateUserProfileOutcome(row.id, d) = DuplicateResource

RefusedDuplicateChangesNothing ==
    (resp'.code = "DUPLICATE_RESOURCE") => (users' = users)

VoteCountFrame ==
    LET added == votes' \ votes IN
    /\ \A o \in options' :
           (\A old \in options : old.id # o.id) => o.vote_count = 0
    /\ \A old \in options, o \in options' :
           (o.id = old.id /\ o.vote_count # old.vote_count) =>
               /\ o.vote_count = old.vote_count + 1
               /\ Cardinality(added) = 1
               /\ \A v \in added : v.poll_option_id = o.id /\ v.poll_id = o.poll_id
    /\ \A v \in added :
           /\ added = {v}
           /\ \E old \in options, o \in options' :
                  /\ old.id = v.poll_option_id
                  /\ o.id = old.id
                  /\ o.vote_count = old.vote_count + 1

C27_VoteCountChangesOnlyByItsVote == [][VoteCountFrame]_vars

\* C28: create_poll stores the caller as owner_id and the server time as
\* pub_date, and no later step changes the owner_id or the pub_date of a
\* poll, whatever keys the body of an update carries.
NewPollIsTheCallersNow ==
    \A c \in Users, d \in OwnerCreates :
        NewPoll(c, d).owner_id = c /\ NewPoll(c, d).pub_date = now

CreatedByTheCallerNow ==
    \A p \in polls' :
        (\A old \in polls : old.id # p.id) =>
            /\ resp'.op = "create_poll"
            /\ \E c \in Users, d \in OwnerCreates : p = NewPoll(c, d)

OwnerAndDateKept ==
    \A old \in polls, new \in polls' :
        (new.id = old.id) =>
            (new.owner_id = old.owner_id /\ new.pub_date = old.pub_date)

C28_OwnerAndPubDateNeverChange ==
    /\ []NewPollIsTheCallersNow
    /\ [][CreatedByTheCallerNow /\ OwnerAndDateKept]_vars

\* User 1's poll, created before the current hour, has been renamed by an
\* update and voted on, and is still user 1's.
C28_Witness ==
    \E p \in polls :
        /\ p.owner_id = 1 /\ p.title = TitleB /\ p.pub_date < now
        /\ VotesOn(p.id) # {}
        /\ resp.op = "update_poll" /\ resp.status = 200

\* C29: a create_poll request of a user who owns MAX_POLLS_PER_USER polls is
\* answered 400 BUSINESS_RULE_VIOLATION (whatever the hourly count), one of a
\* user below that who created 5 polls within the last hour is answered 429
\* RATE_LIMIT_EXCEEDED, and neither stores anything; so no user owns more than
\* MAX_POLLS_PER_USER polls and no hour-long window holds more than 5 polls
\* of one user.
CreatedInWindow(user, from) ==
    {p \in polls : p.owner_id = user /\ from <= p.pub_date /\ p.pub_date <= from + 1}

CreateLimitsKept ==
    \A u \in Users :
        /\ Cardinality({p \in polls : p.owner_id = u}) <= MAX_POLLS_PER_USER
        /\ \A q \in polls :
               Cardinality(CreatedInWindow(u, q.pub_date)) <= POLL_CREATION_HOURLY_LIMIT

CreateIsRefusedAtTheLimits ==
    \A u \in Users, t \in {TitleNumbered(seq.poll), TitleNumbered(1)} :
        IF Cardinality({p \in polls : p.owner_id = u}) >= MAX_POLLS_PER_USER
        THEN CreatePollOutcome(u, RateCreate(t)) = Outcome(400, "BUSINESS_RULE_VIOLATION")
        ELSE (Cardinality(CreatedInWindow(u, now - 1)) >= POLL_CREATION_HOURLY_LIMIT)
                 => CreatePollOutcome(u, RateCreate(t)) = Outcome(429, "RATE_LIMIT_EXCEEDED")

RefusedCreateStoresNothing ==
    (resp'.op = "create_poll" /\ resp'.status \in {400, 429})
        => (polls' = polls /\ seq' = seq)

C29_CreateRespectsBothLimits ==
    /\ [](CreateLimitsKept /\ CreateIsRefusedAtTheLimits)
    /\ [][RefusedCreateStoresNothing]_vars

\* User 1 owns MAX_POLLS_PER_USER polls, 5 of them created within the last
\* hour, and the request has just been refused for the first reason.
C29_Witness ==
    /\ Cardinality({p \in polls : p.owner_id = 1}) = MAX_POLLS_PER_USER
    /\ Cardinality(CreatedInWindow(1, now - 1)) >= POLL_CREATION_HOURLY_LIMIT
    /\ resp.op = "create_poll"
    /\ resp.code = "BUSINESS_RULE_VIOLATION"

\* User 1, below MAX_POLLS_PER_USER, has just been refused a sixth poll
\* within the hour.
C29_RateLimited ==
    /\ Cardinality({p \in polls : p.owner_id = 1}) < MAX_POLLS_PER_USER
    /\ Cardinality(CreatedInWindow(1, now - 1)) = POLL_CREATION_HOURLY_LIMIT
    /\ resp.op = "create_poll"
    /\ resp.code = "RATE_LIMIT_EXCEEDED"

\* C30: every Vote row names the poll of the option it names, so the votes
\* the duplicate-vote query finds for a user on a poll (through the option)
\* are the rows the (poll_id, user_id) constraint counts; and a vote_poll
\* request of a user who may vote on the poll, for an option id that does
\* not exist or belongs to another poll, is answered 404 and stores nothing.
VotesMatchTheirOption ==
    \A v \in votes :
        \E o \in options : o.id = v.poll_option_id /\ o.poll_id = v.poll_id

PreCheckAgreesWithConstraint ==
    \A u \in Users, p \in PollIds :
        ExistingVotes(p, u) = {v \in votes : v.poll_id = p /\ v.user_id = u}

WrongOptionIsNotFound ==
    \A c \in Users, p \in PollIds, o \in OptionIds :
        \A poll \in PollRows(p) :
            (Accessible(poll, c) /\ poll.is_active /\ ~OptionIn(p, o))
                => VotePollOutcome(c, p, o).status = 404

DeniedVoteStoresNothing ==
    (resp'.op = "vote_poll" /\ resp'.status # 200)
        => (votes' = votes /\ options' = options)

C30_VotesNameTheirOptionsPoll ==
    /\ [](VotesMatchTheirOption /\ PreCheckAgreesWithConstraint /\ WrongOptionIsNotFound)
    /\ [][DeniedVoteStoresNothing]_vars

====
